---- MODULE Spec2Model ----
(***************************************************************************)
(* The dancing-links exact-cover engine of puzzle-utils.                   *)
(*                                                                         *)
(*   solver/src/structures/dancing_links/mod.rs   DancingMatrix            *)
(*   src/structures/dancing_links/node.rs         Node                     *)
(*                                                                         *)
(* The heap is a sequence of Node records; a pointer is an index into it   *)
(* and NULL is 0.  alloc appends, dealloc counts (memory is never reused). *)
(*                                                                         *)
(* Beside the engine the module holds the structures that stand on their   *)
(* own, each with the specification its operations run under:              *)
(*                                                                         *)
(*   src/structures/dancing_links/mod.rs   the engine's other variant      *)
(*   src/structures/disjoint_set.rs        DisjointSet     (SpecSet)       *)
(*   src/puzzles/sudoku/mod.rs, mask.rs    solve, Mask     (SpecSudoku)    *)
(***************************************************************************)
EXTENDS Integers, Sequences, FiniteSets, TLC

\* Bounds of the model.
MaxCols == 3
MaxRow == 2
MaxAdds == 2

\* ptr::null_mut()
NULL == 0

VARIABLES
    constraints,       \* the argument of DancingMatrix::new
    mem,               \* the heap: node pointer -> Node
    freed,             \* node pointer -> number of dealloc calls on it
    root,              \* DancingMatrix.root
    rows,              \* DancingMatrix.rows (index i of the Vec is rows[i + 1])
    partial_solution,  \* DancingMatrix.partial_solution
    pc,                \* where the caller / the running public call is
    cur,               \* add_solution: [row, it]: the row node and its iterator
    stack,             \* solve_helper's call frames, innermost last
    ret,               \* the value the last solve_helper call returned
    calls,             \* the add_solution calls made so far: [row, result]
    result,            \* what solve returned: [status, rows]
    engine,            \* which variant of the engine runs: "solver" or "lib"
    trail,             \* per frame of `stack`: the state at its entry, what it did since
    elements,          \* DisjointSet.elements (index i of the Vec is elements[i + 1])
    unions,            \* the in-range pairs union has been called with
    last,              \* the last DisjointSet call: its arguments, result, state before
    input,             \* sudoku: the grid solve was called with
    puzzle,            \* sudoku: solve's working copy (index i is puzzle[i + 1])
    squares,           \* sudoku: solve's `stack` of Square [index, candidates]
    mask,              \* sudoku: the Mask [rows, cols, boxes]
    spc,               \* sudoku: where solve is
    solved,            \* sudoku: what solve returned: [status, grid]
    text,              \* sudoku: the chars of the string parse was called with
    parsed,            \* sudoku: what parse returned
    width,             \* maze: the width create_maze was called with
    height,            \* maze: the height create_maze was called with
    maze,              \* maze: the Vec<Node> (index i of the Vec is maze[i + 1])
    path,              \* maze: recursive_backtrack's `path`
    can_visit,         \* maze: recursive_backtrack's `can_visit`
    path_tree,         \* maze: create_maze's `path_tree`
    traversal,         \* maze: create_maze's `traversal`
    found_paths,       \* maze: create_maze's `found_paths`
    solution,          \* maze: what create_maze returned beside the grid
    mpc                \* maze: where create_maze is

\* The engine's variables, the disjoint set's, the Sudoku solver's, the maze's.
dlVars == <<constraints, mem, freed, root, rows, partial_solution, pc, cur,
            stack, ret, calls, result, engine, trail>>

dsVars == <<elements, unions, last>>

skVars == <<input, puzzle, squares, mask, spc, solved, text, parsed>>

mzVars == <<width, height, maze, path, can_visit, path_tree, traversal,
            found_paths, solution, mpc>>

vars == <<dlVars, dsVars, skVars, mzVars>>

-----------------------------------------------------------------------------
(* Node: allocation and linking                                            *)

\* Node::new_header
NewHeader(h, previous, num_rows) ==
    LET ptr == Len(h) + 1
        node == [header |-> NULL, left |-> ptr, right |-> ptr,
                 up |-> ptr, down |-> ptr, row |-> num_rows]
    IN  IF previous # NULL
        THEN LET linked == [node EXCEPT !.left = previous,
                                        !.right = h[previous].right]
                 h1 == [h EXCEPT ![h[previous].right].left = ptr]
                 h2 == [h1 EXCEPT ![previous].right = ptr]
             IN  Append(h2, linked)
        ELSE Append(h, node)

\* Mutant of Node::new: the node is linked below the header, not below the
\* node above it.
NewNodeBelowHeader(h, header, row_previous, col_previous, row) ==
    LET ptr == Len(h) + 1
        node == [header |-> header, left |-> ptr, right |-> ptr,
                 up |-> ptr, down |-> ptr, row |-> row]
        nodeR == IF row_previous # NULL
                 THEN [node EXCEPT !.left = row_previous,
                                   !.right = h[row_previous].right]
                 ELSE node
        hR == IF row_previous # NULL
              THEN LET h1 == [h EXCEPT ![h[row_previous].right].left = ptr]
                   IN  [h1 EXCEPT ![row_previous].right = ptr]
              ELSE h
        nodeC == [nodeR EXCEPT !.up = header, !.down = hR[header].down]
        h1 == [hR EXCEPT ![hR[header].down].up = ptr]
        hC == [h1 EXCEPT ![header].down = ptr]
    IN  Append(hC, nodeC)

\* Node::new
NewNode(h, header, row_previous, col_previous, row) ==
    LET ptr == Len(h) + 1
        node == [header |-> header, left |-> ptr, right |-> ptr,
                 up |-> ptr, down |-> ptr, row |-> row]
        nodeR == IF row_previous # NULL
                 THEN [node EXCEPT !.left = row_previous,
                                   !.right = h[row_previous].right]
                 ELSE node
        hR == IF row_previous # NULL
              THEN LET h1 == [h EXCEPT ![h[row_previous].right].left = ptr]
                   IN  [h1 EXCEPT ![row_previous].right = ptr]
              ELSE h
        nodeC == IF col_previous # NULL
                 THEN [nodeR EXCEPT !.up = col_previous,
                                    !.down = hR[col_previous].down]
                 ELSE nodeR
        hC == IF col_previous # NULL
              THEN LET h1 == [hR EXCEPT ![hR[col_previous].down].up = ptr]
                   IN  [h1 EXCEPT ![col_previous].down = ptr]
              ELSE hR
    IN  Append(hC, nodeC)

\* Node::header
Header(h, node) == h[node].header

\* Node::right
Right(h, node) == h[node].right

\* Node::row
Row(h, node) == h[node].row

\* The `if !(*node).header.is_null() { node = (*node).header }` that opens
\* cover_column, uncover_column and free_chain.
ResolveHeader(h, node) ==
    IF h[node].header # NULL THEN h[node].header ELSE node

-----------------------------------------------------------------------------
(* The four iterators.  An iterator is its `current` field; `original` is  *)
(* passed along.  next() yields current and reads its link at that moment. *)

\* The tail of Iterator::next: `if next == self.original { null } else { next }`
Advance(original, next) == IF next = original THEN NULL ELSE next

\* The iterator state after the first next() of iter_x(node), i.e. what
\* .skip(1) leaves behind before it yields its first item.
SkipRight(h, node) == Advance(node, h[node].right)
SkipLeftGoesRight(h, node) == Advance(node, h[node].right)
SkipLeft(h, node) == Advance(node, h[node].left)
SkipUpGoesDown(h, node) == Advance(node, h[node].down)
SkipUp(h, node) == Advance(node, h[node].up)
SkipDown(h, node) == Advance(node, h[node].down)

\* The nodes iter_right / iter_down yield from `current` on, on a heap that
\* does not change during the iteration.
RECURSIVE RightFrom(_, _, _)
RightFrom(h, original, current) ==
    IF current = NULL THEN <<>>
    ELSE <<current>> \o RightFrom(h, original, Advance(original, h[current].right))

RECURSIVE DownFrom(_, _, _)
DownFrom(h, original, current) ==
    IF current = NULL THEN <<>>
    ELSE <<current>> \o DownFrom(h, original, Advance(original, h[current].down))

\* Node::iter_right, Node::iter_down collected
IterRight(h, node) == RightFrom(h, node, node)
IterDown(h, node) == DownFrom(h, node, node)

-----------------------------------------------------------------------------
(* cover / uncover                                                         *)

\* Node::cover_horizontal
CoverHorizontal(h, node) ==
    LET l == h[node].left
        r == h[node].right
        h1 == [h EXCEPT ![l].right = r]
    IN  [h1 EXCEPT ![r].left = l]

\* Mutant of cover_vertical: `(*down).up = up` is left out.
CoverVerticalOneWay(h, node) ==
    [h EXCEPT ![h[node].up].down = h[node].down]

\* Node::cover_vertical
CoverVertical(h, node) ==
    LET u == h[node].up
        d == h[node].down
        h1 == [h EXCEPT ![u].down = d]
    IN  [h1 EXCEPT ![d].up = u]

\* Node::uncover_horizontal
UncoverHorizontal(h, node) ==
    LET l == h[node].left
        r == h[node].right
        h1 == [h EXCEPT ![l].right = node]
    IN  [h1 EXCEPT ![r].left = node]

\* Node::uncover_vertical
UncoverVertical(h, node) ==
    LET u == h[node].up
        d == h[node].down
        h1 == [h EXCEPT ![u].down = node]
    IN  [h1 EXCEPT ![d].up = node]

\* Mutant of cover_column's inner pair: the live count is not decremented.
CoverCellKeepsCount(h, col) == CoverVertical(h, col)

\* cover_column's inner statement pair, on one cell
CoverCell(h, col) ==
    LET h1 == CoverVertical(h, col)
    IN  [h1 EXCEPT ![h1[col].header].row = @ - 1]

\* cover_column: `for col in iter_right(row).skip(1)`
RECURSIVE CoverRowCells(_, _, _)
CoverRowCells(h, row, col) ==
    IF col = NULL THEN h
    ELSE LET next == Advance(row, h[col].right)
         IN  CoverRowCells(CoverCell(h, col), row, next)

\* Mutant of cover_column's inner loop: the `.skip(1)` is left out, so the
\* row's cell in the covered column is unlinked as well.
RECURSIVE CoverRowsNoSkip(_, _, _)
CoverRowsNoSkip(h, node, row) ==
    IF row = NULL THEN h
    ELSE LET next == Advance(node, h[row].down)
         IN  CoverRowsNoSkip(CoverRowCells(h, row, row), node, next)

\* cover_column: `for row in iter_down(node).skip(1)`
RECURSIVE CoverRows(_, _, _)
CoverRows(h, node, row) ==
    IF row = NULL THEN h
    ELSE LET next == Advance(node, h[row].down)
         IN  CoverRows(CoverRowCells(h, row, SkipRight(h, row)), node, next)

\* Mutant of cover_column: the header is unlinked, the rows are left in place.
CoverColumnHeaderOnly(h, n) == CoverHorizontal(h, ResolveHeader(h, n))

\* Node::cover_column
CoverColumn(h, n) ==
    LET node == ResolveHeader(h, n)
        h1 == CoverHorizontal(h, node)
    IN  CoverRows(h1, node, SkipDown(h1, node))

\* Mutant of uncover_column's inner pair: the live count is not restored.
UncoverCellKeepsCount(h, col) == UncoverVertical(h, col)

\* uncover_column's inner statement pair, on one cell
UncoverCell(h, col) ==
    LET h1 == [h EXCEPT ![h[col].header].row = @ + 1]
    IN  UncoverVertical(h1, col)

\* uncover_column: `for col in iter_left(row).skip(1)`
RECURSIVE UncoverRowCells(_, _, _)
UncoverRowCells(h, row, col) ==
    IF col = NULL THEN h
    ELSE LET next == Advance(row, h[col].left)
         IN  UncoverRowCells(UncoverCell(h, col), row, next)

\* uncover_column: `for row in iter_up(node).skip(1)`
RECURSIVE UncoverRows(_, _, _)
UncoverRows(h, node, row) ==
    IF row = NULL THEN h
    ELSE LET next == Advance(node, h[row].up)
         IN  UncoverRows(UncoverRowCells(h, row, SkipLeft(h, row)), node, next)

\* Mutant of uncover_column: the header is not linked back into its ring.
UncoverColumnHeaderOut(h, n) ==
    LET node == ResolveHeader(h, n)
    IN  UncoverRows(h, node, SkipUp(h, node))

\* Node::uncover_column
UncoverColumn(h, n) ==
    LET node == ResolveHeader(h, n)
        h1 == UncoverRows(h, node, SkipUp(h, node))
    IN  UncoverHorizontal(h1, node)

-----------------------------------------------------------------------------
(* deallocation                                                            *)

\* dealloc(node as *mut u8, NODE_LAYOUT)
Dealloc(f, node) == [f EXCEPT ![node] = @ + 1]

\* free_chain: `for col in iter_right(row).skip(1) { dealloc(col) }`
RECURSIVE FreeRowCells(_, _, _, _)
FreeRowCells(h, f, row, col) ==
    IF col = NULL THEN f
    ELSE LET next == Advance(row, h[col].right)
         IN  FreeRowCells(h, Dealloc(f, col), row, next)

\* free_chain: `for row in iter_down(node).skip(1)`
RECURSIVE FreeRows(_, _, _, _)
FreeRows(h, f, node, row) ==
    IF row = NULL THEN f
    ELSE LET next == Advance(node, h[row].down)
             f1 == FreeRowCells(h, f, row, SkipRight(h, row))
         IN  FreeRows(h, Dealloc(f1, row), node, next)

\* Node::free_chain
FreeChain(h, f, n) ==
    LET node == ResolveHeader(h, n)
    IN  Dealloc(FreeRows(h, f, node, SkipDown(h, node)), node)

\* Drop: `for node in iter_down(header) { dealloc(node) }`
RECURSIVE DropColumn(_, _, _, _)
DropColumn(h, f, header, node) ==
    IF node = NULL THEN f
    ELSE LET next == Advance(header, h[node].down)
         IN  DropColumn(h, Dealloc(f, node), header, next)

\* Drop: `for header in iter_right(self.root)`
RECURSIVE DropHeaders(_, _, _, _)
DropHeaders(h, f, rt, header) ==
    IF header = NULL THEN f
    ELSE LET next == Advance(rt, h[header].right)
         IN  DropHeaders(h, DropColumn(h, f, header, header), rt, next)

\* <DancingMatrix as Drop>::drop
DropMatrix(h, f, rt) == DropHeaders(h, f, rt, rt)

-----------------------------------------------------------------------------
(* DancingMatrix::new                                                      *)

\* rows.resize(n, null_mut()) for n > rows.len()
Resize(v, n) == v \o [i \in 1..(n - Len(v)) |-> NULL]

\* Mutant of the resize: one slot too many.
ResizeTooFar(index) == index + 2

\* How far new sizes the row table for an index it meets.
ResizeTo(index) == index + 1

\* new: `for &index in constraint`, from the i-th index on.
\* m = [mem, rows]; hdr is the column's header, col_curr the node above.
RECURSIVE NewCells(_, _, _, _, _)
NewCells(m, hdr, col_curr, constraint, i) ==
    IF i > Len(constraint) THEN m
    ELSE LET index == constraint[i]
             rs == IF index >= Len(m.rows)
                   THEN Resize(m.rows, ResizeTo(index))
                   ELSE m.rows
             new == Len(m.mem) + 1
             h1 == NewNode(m.mem, hdr, rs[index + 1], col_curr, index)
         IN  NewCells([mem |-> h1, rows |-> [rs EXCEPT ![index + 1] = new]],
                      hdr, new, constraint, i + 1)

\* new: `for constraint in constraints`, from the k-th constraint on.
RECURSIVE NewColumns(_, _, _, _)
NewColumns(m, curr, cs, k) ==
    IF k > Len(cs) THEN m
    ELSE LET new == Len(m.mem) + 1
             h1 == NewHeader(m.mem, curr, Len(cs[k]))
             m1 == NewCells([m EXCEPT !.mem = h1], new, new, cs[k], 1)
         IN  NewColumns(m1, new, cs, k + 1)

\* DancingMatrix::new: the heap and the row table it builds (root is node 1)
New(cs) ==
    LET h0 == NewHeader(<<>>, NULL, 0)
    IN  NewColumns([mem |-> h0, rows |-> <<>>], 1, cs, 1)

\* The other engine variant (src/structures/dancing_links/mod.rs) sizes the
\* table up front: constraints.iter().flatten().max().map(|x| x + 1).unwrap_or(0)
RECURSIVE Flatten(_)
Flatten(cs) == IF cs = <<>> THEN <<>> ELSE Head(cs) \o Flatten(Tail(cs))

RECURSIVE MaxFrom(_, _)
MaxFrom(best, rest) ==
    IF rest = <<>> THEN best
    ELSE MaxFrom(IF Head(rest) >= best THEN Head(rest) ELSE best, Tail(rest))

NumRows(cs) ==
    LET all == Flatten(cs)
    IN  IF all = <<>> THEN 0 ELSE MaxFrom(Head(all), Tail(all)) + 1

-----------------------------------------------------------------------------
(* Inputs                                                                  *)

RowIndices == 0..MaxRow

\* A constraint: the row indices of one column, each index once.
Lists ==
    { c \in UNION { [1..n -> RowIndices] : n \in 0..(MaxRow + 1) } :
        \A i, j \in DOMAIN c : i # j => c[i] # c[j] }

Inputs == UNION { [1..n -> Lists] : n \in 0..MaxCols }

\* No DisjointSet has been made.
SetIdle ==
    /\ elements = <<>>
    /\ unions = {}
    /\ last = [op |-> "none"]

\* Neither the Sudoku parse nor the solve has been called.
SudokuIdle ==
    /\ input = <<>>
    /\ puzzle = <<>>
    /\ squares = <<>>
    /\ mask = <<>>
    /\ spc = "idle"
    /\ solved = [status |-> "none"]
    /\ text = <<>>
    /\ parsed = [status |-> "none"]

\* create_maze has not been called.
MazeIdle ==
    /\ width = 0
    /\ height = 0
    /\ maze = <<>>
    /\ path = <<>>
    /\ can_visit = <<>>
    /\ path_tree = <<>>
    /\ traversal = <<>>
    /\ found_paths = 0
    /\ solution = <<>>
    /\ mpc = "idle"

\* No DancingMatrix has been made.
EngineIdle ==
    /\ constraints = <<>>
    /\ mem = <<>>
    /\ freed = <<>>
    /\ root = NULL
    /\ rows = <<>>
    /\ partial_solution = <<>>
    /\ pc = "idle"
    /\ cur = [row |-> NULL, it |-> NULL]
    /\ stack = <<>>
    /\ ret = "none"
    /\ calls = <<>>
    /\ result = [status |-> "none", rows |-> <<>>]
    /\ engine = "none"
    /\ trail = <<>>

Init ==
    /\ constraints \in Inputs
    /\ mem = New(constraints).mem
    /\ freed = [n \in 1..Len(New(constraints).mem) |-> 0]
    /\ root = 1
    /\ rows = New(constraints).rows
    /\ partial_solution = <<>>
    /\ pc = "ready"
    /\ cur = [row |-> NULL, it |-> NULL]
    /\ stack = <<>>
    /\ ret = "none"
    /\ calls = <<>>
    /\ result = [status |-> "none", rows |-> <<>>]
    /\ engine = "solver"
    /\ trail = <<>>
    /\ SetIdle
    /\ SudokuIdle
    /\ MazeIdle

-----------------------------------------------------------------------------
(* DancingMatrix::add_solution, one step per cover_column / free_chain     *)
(* call.  The row table entry may point at a node that free_chain has      *)
(* deallocated: dereferencing it is undefined behaviour, modelled as the   *)
(* call either appearing to succeed or aborting, after which the model     *)
(* says nothing more about the matrix (pc = "ub").                         *)

RowArgs == 0..(MaxRow + 1)

Record(r, res) == Append(calls, [row |-> r, result |-> res])

Finish(res) == [calls EXCEPT ![Len(calls)].result = res]

\* add_solution: `for node in iter_down(header(row)).skip(1) { rows[row(node)] = null }`
RECURSIVE NullColumn(_, _, _)
NullColumn(h, v, nodes) ==
    IF nodes = <<>> THEN v
    ELSE NullColumn(h, [v EXCEPT ![Row(h, Head(nodes)) + 1] = NULL], Tail(nodes))

\* add_solution: which lookup entries a successful call clears
NullEntries(h, v, row) == NullColumn(h, v, Tail(IterDown(h, Header(h, row))))

\* Mutant of the push: the row is not recorded.
PushRowLost(ps, r) == ps

\* add_solution: `self.partial_solution.push(row)`, before the null check
PushRow(ps, r) == Append(ps, r)

\* add_solution up to the first cover_column call
AddSolutionCall(r) ==
    /\ pc = "ready"
    /\ Len(calls) < MaxAdds
    /\ IF r >= Len(rows)
       THEN /\ calls' = Record(r, "IndexError")
            /\ UNCHANGED <<partial_solution, rows, pc, cur>>
       ELSE /\ partial_solution' = PushRow(partial_solution, r)
            /\ LET row == rows[r + 1] IN
               IF row = NULL
               THEN /\ calls' = Record(r, "InvalidRow")
                    /\ UNCHANGED <<rows, pc, cur>>
               ELSE IF freed[row] > 0
               THEN /\ \E res \in {"Ok", "Crash"} : calls' = Record(r, res)
                    /\ pc' = "ub"
                    /\ UNCHANGED <<rows, cur>>
               ELSE /\ calls' = Record(r, "running")
                    /\ rows' = NullEntries(mem, rows, row)
                    /\ cur' = [row |-> row, it |-> row]
                    /\ pc' = "add_cover"
    /\ UNCHANGED trail
    /\ UNCHANGED <<engine, dsVars, skVars, mzVars>>
    /\ UNCHANGED <<constraints, mem, freed, root, stack, ret, result>>

\* add_solution: `for node in iter_right(row) { cover_column(node) }`
AddSolutionCover ==
    /\ pc = "add_cover"
    /\ IF cur.it = NULL
       THEN /\ cur' = [cur EXCEPT !.it = SkipRight(mem, cur.row)]
            /\ pc' = "add_free"
            /\ UNCHANGED mem
       ELSE /\ cur' = [cur EXCEPT !.it = Advance(cur.row, mem[cur.it].right)]
            /\ mem' = CoverColumn(mem, cur.it)
            /\ UNCHANGED pc
    /\ UNCHANGED trail
    /\ UNCHANGED <<engine, dsVars, skVars, mzVars>>
    /\ UNCHANGED <<constraints, freed, root, rows, partial_solution, stack,
                   ret, calls, result>>

\* add_solution: `for node in iter_right(row).skip(1) { free_chain(node) }`,
\* then free_chain(row) and Ok(())
AddSolutionFree ==
    /\ pc = "add_free"
    /\ IF cur.it = NULL
       THEN /\ freed' = FreeChain(mem, freed, cur.row)
            /\ cur' = [row |-> NULL, it |-> NULL]
            /\ calls' = Finish("Ok")
            /\ pc' = "ready"
       ELSE /\ freed' = FreeChain(mem, freed, cur.it)
            /\ cur' = [cur EXCEPT !.it = Advance(cur.row, mem[cur.it].right)]
            /\ UNCHANGED <<calls, pc>>
    /\ UNCHANGED trail
    /\ UNCHANGED <<engine, dsVars, skVars, mzVars>>
    /\ UNCHANGED <<constraints, mem, root, rows, partial_solution, stack,
                   ret, result>>

-----------------------------------------------------------------------------
(* DancingMatrix::solve and solve_helper, one step per cover_column,       *)
(* uncover_column or free_chain call.  A frame of solve_helper is          *)
(* [pc, constraint, rowIt, row, colIt]: rowIt is the iterator over the     *)
(* branch column, colIt the iterator over the tried row.                   *)

\* Mutant of is_empty: it looks down from the root.
IsEmptyLooksDown(h, rt) == h[rt].down = rt

\* DancingMatrix::is_empty
IsEmpty(h, rt) == Right(h, rt) = rt

\* Mutant of the column choice: the fold keeps the larger count.
RECURSIVE MinByRowKeepsLarger(_, _, _)
MinByRowKeepsLarger(h, best, rest) ==
    IF rest = <<>> THEN best
    ELSE MinByRowKeepsLarger(h,
                  IF Row(h, best) > Row(h, Head(rest)) THEN best ELSE Head(rest),
                  Tail(rest))

\* Iterator::min_by folds with `Greater => y, _ => x`: the first minimum.
RECURSIVE MinByRow(_, _, _)
MinByRow(h, best, rest) ==
    IF rest = <<>> THEN best
    ELSE MinByRow(h,
                  IF Row(h, best) > Row(h, Head(rest)) THEN Head(rest) ELSE best,
                  Tail(rest))

\* solve_helper: the column it branches on
ChooseConstraint(h, rt) ==
    LET hs == Tail(IterRight(h, rt))
    IN  MinByRow(h, Head(hs), Tail(hs))

Top == stack[Len(stack)]

Pop == SubSeq(stack, 1, Len(stack) - 1)

SetTop(f) == [stack EXCEPT ![Len(stack)] = f]

Frame(p, c, ri, r, ci) ==
    [pc |-> p, constraint |-> c, rowIt |-> ri, row |-> r, colIt |-> ci]

EnterFrame == Frame("enter", NULL, NULL, NULL, NULL)

\* What `trail` keeps for a frame: the heap and the partial solution at the
\* call, the rows the frame has tried, and for the row being tried the
\* columns covered and uncovered, each in the order it happened.
Entered ==
    [mem |-> mem, partial_solution |-> partial_solution, tried |-> <<>>,
     covered |-> <<>>, uncovered |-> <<>>]

Trail == trail[Len(trail)]

PopTrail == SubSeq(trail, 1, Len(trail) - 1)

SetTrail(t) == [trail EXCEPT ![Len(trail)] = t]

\* solve: the call of solve_helper
SolveCall ==
    /\ pc = "ready"
    /\ pc' = "solving"
    /\ stack' = <<EnterFrame>>
    /\ trail' = <<Entered>>
    /\ UNCHANGED <<engine, dsVars, skVars, mzVars>>
    /\ UNCHANGED <<constraints, mem, freed, root, rows, partial_solution, cur,
                   ret, calls, result>>

\* solve_helper: is_empty, the choice of the column and its cover
HelperEnter ==
    /\ pc = "solving" /\ stack # <<>> /\ Top.pc = "enter"
    /\ IF IsEmpty(mem, root)
       THEN /\ stack' = Pop
            /\ ret' = "true"
            /\ UNCHANGED mem
       ELSE LET c == ChooseConstraint(mem, root)
                h1 == CoverColumn(mem, c)
            IN  /\ mem' = h1
                /\ stack' = SetTop(Frame("rows", c, SkipDown(h1, c), NULL, NULL))
                /\ UNCHANGED ret
    /\ trail' = IF IsEmpty(mem, root) THEN PopTrail ELSE trail
    /\ UNCHANGED <<engine, dsVars, skVars, mzVars>>
    /\ UNCHANGED <<constraints, freed, root, rows, partial_solution, pc, cur,
                   calls, result>>

\* solve_helper: `for row in iter_down(constraint).skip(1)` and the push;
\* when the column is exhausted, uncover_column(constraint) and `false`
HelperNextRow ==
    /\ pc = "solving" /\ stack # <<>> /\ Top.pc = "rows"
    /\ IF Top.rowIt = NULL
       THEN /\ mem' = UncoverColumn(mem, Top.constraint)
            /\ stack' = Pop
            /\ ret' = "false"
            /\ UNCHANGED partial_solution
       ELSE LET row == Top.rowIt IN
            /\ partial_solution' = Append(partial_solution, Row(mem, row))
            /\ stack' = SetTop(Frame("cover", Top.constraint,
                                     Advance(Top.constraint, mem[row].down),
                                     row, SkipRight(mem, row)))
            /\ UNCHANGED <<mem, ret>>
    /\ trail' = IF Top.rowIt = NULL THEN PopTrail
                 ELSE SetTrail([Trail EXCEPT !.tried = Append(@, Top.rowIt),
                                             !.covered = <<>>,
                                             !.uncovered = <<>>])
    /\ UNCHANGED <<engine, dsVars, skVars, mzVars>>
    /\ UNCHANGED <<constraints, freed, root, rows, pc, cur, calls, result>>

\* solve_helper: `for node in iter_right(row).skip(1) { cover_column(node) }`,
\* then the recursive call
HelperCover ==
    /\ pc = "solving" /\ stack # <<>> /\ Top.pc = "cover"
    /\ IF Top.colIt = NULL
       THEN /\ stack' = Append(SetTop([Top EXCEPT !.pc = "call"]), EnterFrame)
            /\ UNCHANGED mem
       ELSE /\ mem' = CoverColumn(mem, Top.colIt)
            /\ stack' = SetTop([Top EXCEPT
                                  !.colIt = Advance(Top.row, mem[Top.colIt].right)])
    /\ trail' = IF Top.colIt = NULL THEN Append(trail, Entered)
                 ELSE SetTrail([Trail EXCEPT
                                  !.covered = Append(@, ResolveHeader(mem, Top.colIt))])
    /\ UNCHANGED <<engine, dsVars, skVars, mzVars>>
    /\ UNCHANGED <<constraints, freed, root, rows, partial_solution, pc, cur,
                   ret, calls, result>>

\* solve_helper: `if self.solve_helper() { ... }` once the call has returned
HelperReturned ==
    /\ pc = "solving" /\ stack # <<>> /\ Top.pc = "call" /\ ret # "none"
    /\ IF ret = "true"
       THEN stack' = SetTop([Top EXCEPT !.pc = "free",
                                        !.colIt = SkipRight(mem, Top.row)])
       ELSE stack' = SetTop([Top EXCEPT !.pc = "uncover",
                                        !.colIt = SkipLeft(mem, Top.row)])
    /\ ret' = "none"
    /\ UNCHANGED trail
    /\ UNCHANGED <<engine, dsVars, skVars, mzVars>>
    /\ UNCHANGED <<constraints, mem, freed, root, rows, partial_solution, pc,
                   cur, calls, result>>

\* solve_helper: `for node in iter_right(row).skip(1) { free_chain(node) }`,
\* then free_chain(constraint) and `true`
HelperFree ==
    /\ pc = "solving" /\ stack # <<>> /\ Top.pc = "free"
    /\ IF Top.colIt = NULL
       THEN /\ freed' = FreeChain(mem, freed, Top.constraint)
            /\ stack' = Pop
            /\ ret' = "true"
       ELSE /\ freed' = FreeChain(mem, freed, Top.colIt)
            /\ stack' = SetTop([Top EXCEPT
                                  !.colIt = Advance(Top.row, mem[Top.colIt].right)])
            /\ UNCHANGED ret
    /\ trail' = IF Top.colIt = NULL THEN PopTrail ELSE trail
    /\ UNCHANGED <<engine, dsVars, skVars, mzVars>>
    /\ UNCHANGED <<constraints, mem, root, rows, partial_solution, pc, cur,
                   calls, result>>

\* solve_helper: `for node in iter_left(row).skip(1) { uncover_column(node) }`,
\* then the pop
HelperUncover ==
    /\ pc = "solving" /\ stack # <<>> /\ Top.pc = "uncover"
    /\ IF Top.colIt = NULL
       THEN /\ partial_solution' =
                   SubSeq(partial_solution, 1, Len(partial_solution) - 1)
            /\ stack' = SetTop([Top EXCEPT !.pc = "rows", !.row = NULL])
            /\ UNCHANGED mem
       ELSE /\ mem' = UncoverColumn(mem, Top.colIt)
            /\ stack' = SetTop([Top EXCEPT
                                  !.colIt = Advance(Top.row, mem[Top.colIt].left)])
            /\ UNCHANGED partial_solution
    /\ trail' = IF Top.colIt = NULL THEN trail
                 ELSE SetTrail([Trail EXCEPT
                                  !.uncovered = Append(@, ResolveHeader(mem, Top.colIt))])
    /\ UNCHANGED <<engine, dsVars, skVars, mzVars>>
    /\ UNCHANGED <<constraints, freed, root, rows, pc, cur, ret, calls, result>>

\* solve: the result, and the drop of `self` at the end of solve
SolveReturn ==
    /\ pc = "solving" /\ stack = <<>> /\ ret # "none"
    /\ IF ret = "true"
       THEN /\ result' = [status |-> "Ok", rows |-> partial_solution]
            /\ partial_solution' = <<>>
       ELSE /\ result' = [status |-> "NoSolution", rows |-> <<>>]
            /\ UNCHANGED partial_solution
    /\ freed' = DropMatrix(mem, freed, root)
    /\ pc' = "dropped"
    /\ UNCHANGED trail
    /\ UNCHANGED <<engine, dsVars, skVars, mzVars>>
    /\ UNCHANGED <<constraints, mem, root, rows, cur, stack, ret, calls>>

\* drop of a matrix that was never solved
DropUnsolved ==
    /\ pc = "ready"
    /\ freed' = DropMatrix(mem, freed, root)
    /\ pc' = "dropped"
    /\ UNCHANGED trail
    /\ UNCHANGED <<engine, dsVars, skVars, mzVars>>
    /\ UNCHANGED <<constraints, mem, root, rows, partial_solution, cur, stack,
                   ret, calls, result>>

Next ==
    \/ \E r \in RowArgs : AddSolutionCall(r)
    \/ AddSolutionCover
    \/ AddSolutionFree
    \/ SolveCall
    \/ HelperEnter
    \/ HelperNextRow
    \/ HelperCover
    \/ HelperReturned
    \/ HelperFree
    \/ HelperUncover
    \/ SolveReturn
    \/ DropUnsolved

Spec == Init /\ [][Next]_vars

-----------------------------------------------------------------------------
(* Vocabulary of the claims                                                *)

Range(f) == { f[i] : i \in DOMAIN f }

Allocated == 1..Len(mem)

\* The columns (positions in the constraint list) that list row r.
Cols(r) == { k \in DOMAIN constraints : r \in Range(constraints[k]) }

\* Every row index the constraint lists mention.
Mentioned == UNION { Range(constraints[k]) : k \in DOMAIN constraints }

Largest(S) == CHOOSE x \in S : \A y \in S : y <= x

\* The rows whose add_solution call returned Ok(()).
Selected == { calls[i].row : i \in { j \in DOMAIN calls : calls[j].result = "Ok" } }

\* The call chain has ended with solve's return value in `result`.
Solved == pc = "dropped" /\ result.status # "none"

\* The column headers linked in the root's ring, in ring order.
LinkedHeaders == Tail(IterRight(mem, root))

\* The nodes reached from the root by following the four links.
RECURSIVE Closure(_, _)
Closure(h, S) ==
    LET T == S \cup UNION { {h[n].left, h[n].right, h[n].up, h[n].down} : n \in S }
    IN  IF T = S THEN S ELSE Closure(h, T)

Reachable == Closure(mem, {root})

\* The matrix exists and no undefined behaviour has happened.
Defined == pc \notin {"dropped", "ub"}

\* S, together with the pre-selected rows, covers every column exactly once.
CompletesCover(S) ==
    /\ \A r \in S : Cols(r) # {} /\ \A q \in Selected : Cols(r) \cap Cols(q) = {}
    /\ \A k \in DOMAIN constraints :
          Range(constraints[k]) \cap Selected = {}
             => Cardinality(Range(constraints[k]) \cap S) = 1

-----------------------------------------------------------------------------
(* Sanity of the model itself                                              *)

\* Without undefined behaviour, what is reachable from the root is not freed.
ReachableLive == Defined => \A n \in Reachable : freed[n] = 0

\* Without undefined behaviour, a dropped matrix has freed each node once.
DefinedRunsFreeOnce == pc = "dropped" => \A n \in Allocated : freed[n] = 1

\* A solve that follows only successful or out-of-range calls is an exact cover.
CleanSolveExact ==
    (Solved /\ result.status = "Ok" /\ \A i \in DOMAIN calls : calls[i].result # "InvalidRow")
       => \A k \in DOMAIN constraints :
             Cardinality({ i \in DOMAIN result.rows :
                              result.rows[i] \in Range(constraints[k]) }) = 1

-----------------------------------------------------------------------------
(* C1 .. C10                                                               *)

\* How many of the returned rows column k lists.
Hits(k) ==
    Cardinality({ i \in DOMAIN result.rows : result.rows[i] \in Range(constraints[k]) })

\* C1 (as claimed): whatever the add_solution calls before it returned, when
\* solve returns Ok(rows) every column of the constraint list holds exactly
\* one of the returned rows, so no two returned rows share a column.
C1_SolveIsExactCover ==
    (Solved /\ result.status = "Ok") => \A k \in DOMAIN constraints : Hits(k) = 1

\* C2: in a matrix reached by new, add_solution and the nested covers of the
\* search, cover_column(h) followed at once by uncover_column(h) leaves every
\* pointer and every live count as it was, for every header h linked in the
\* root's ring.
C2_CoverUncoverRestores ==
    Defined => \A h \in Range(LinkedHeaders) :
                  UncoverColumn(CoverColumn(mem, h), h) = mem

\* C2's case: inside a nested search, a linked column whose cover removes
\* cells from another column.
C2_Witness ==
    /\ pc = "solving" /\ Len(stack) >= 2
    /\ \E h \in Range(LinkedHeaders) :
          /\ CoverColumn(mem, h) # CoverHorizontal(mem, h)
          /\ UncoverColumn(CoverColumn(mem, h), h) = mem

\* C3: solve returns NoSolution exactly when no set of rows completes the
\* pre-selected rows to an exact cover of the columns, and Ok whenever such a
\* set exists.
C3_NoSolutionIffNoCover ==
    Solved => (result.status = "NoSolution"
                  <=> ~ \E S \in SUBSET Mentioned : CompletesCover(S))

\* C3's cases.  Exhausted: the search ran out of rows after a pre-selection
\* although every column lists two rows or more.  Found: the row the search
\* settled on first heads no column, so the row it tried first had failed.
C3_Exhausted ==
    /\ Solved /\ result.status = "NoSolution"
    /\ Selected # {}
    /\ Len(constraints) = MaxCols
    /\ \A k \in DOMAIN constraints : Len(constraints[k]) >= 2

C3_Witness ==
    /\ Solved /\ result.status = "Ok"
    /\ calls = <<>>
    /\ Len(result.rows) >= 1
    /\ \A k \in DOMAIN constraints :
          Len(constraints[k]) >= 2 /\ constraints[k][1] # result.rows[1]
    /\ \E S \in SUBSET Mentioned : CompletesCover(S)

Removers(i) ==
    { j \in 1..(i - 1) :
        calls[j].result = "Ok" /\ Cols(calls[j].row) \cap Cols(calls[i].row) # {} }

\* C5 (as claimed): add_solution(r) returns InvalidRow whenever an earlier
\* successful add_solution(q) shares a column with r, whichever column that is.
C5_RemovedRowIsInvalid ==
    \A i \in DOMAIN calls :
       (calls[i].result # "running" /\ Removers(i) # {})
          => calls[i].result = "InvalidRow"

\* C6 (as claimed): once add_solution(r) has succeeded, the lookup entry of
\* every other row that shares a column with r is null, and no lookup entry
\* points at a deallocated node.
C6_SharingRowsNulled ==
    pc = "ready" =>
       /\ \A r \in Selected : \A q \in 0..(Len(rows) - 1) :
             (q # r /\ Cols(q) \cap Cols(r) # {}) => rows[q + 1] = NULL
       /\ \A q \in 0..(Len(rows) - 1) :
             rows[q + 1] # NULL => freed[rows[q + 1]] = 0

\* C7: in both engine variants the row table has one slot per index up to the
\* largest index in the constraint lists (none for lists without an index),
\* and add_solution(row) returns IndexError exactly when row is larger than
\* that index.
C7_IndexErrorIffTooLarge ==
    /\ Len(rows) = IF Mentioned = {} THEN 0 ELSE Largest(Mentioned) + 1
    /\ NumRows(constraints) = IF Mentioned = {} THEN 0 ELSE Largest(Mentioned) + 1
    /\ \A i \in DOMAIN calls :
          calls[i].result = "IndexError"
             <=> (Mentioned = {} \/ calls[i].row > Largest(Mentioned))

\* C7's case: a matrix whose largest index is below MaxRow, and calls with the
\* first index past it (IndexError) and with the largest index (no IndexError).
C7_Witness ==
    /\ Mentioned # {} /\ Largest(Mentioned) < MaxRow
    /\ \E i, j \in DOMAIN calls :
          /\ calls[i].row = Largest(Mentioned) + 1 /\ calls[i].result = "IndexError"
          /\ calls[j].row = Largest(Mentioned) /\ calls[j].result = "Ok"

\* C8 (as claimed): however the add_solution calls went, once the matrix has
\* been solved or dropped every node new allocated has been deallocated
\* exactly once.
C8_EveryNodeFreedOnce ==
    pc \in {"dropped", "ub"} => \A n \in Allocated : freed[n] = 1

\* C9: between cover_column / uncover_column calls, every header that has not
\* been deallocated has a live count equal to the number of data nodes on the
\* way down from it back to it.
C9_CountIsColumnLength ==
    \A n \in Allocated :
       (mem[n].header = NULL /\ freed[n] = 0)
          => mem[n].row = Len(IterDown(mem, n)) - 1

\* C9's case: inside a nested search, a header that lost some but not all
\* of its nodes to covers of other columns.
C9_Witness ==
    /\ pc = "solving" /\ Len(stack) >= 2
    /\ \E n \in Range(LinkedHeaders) :
          /\ mem[n].row = Len(IterDown(mem, n)) - 1
          /\ mem[n].row > 0
          /\ \A m \in DOMAIN constraints : Len(constraints[m]) > mem[n].row

\* C10: between cover_column / uncover_column calls, every node reached from
\* the root through the rings is the right of its left, the left of its
\* right, the down of its up and the up of its down.
C10_LinksAreInverse ==
    Defined => \A n \in Reachable :
                  /\ mem[mem[n].right].left = n
                  /\ mem[mem[n].left].right = n
                  /\ mem[mem[n].down].up = n
                  /\ mem[mem[n].up].down = n

\* C10's case: inside a nested search, with covered columns and a data node
\* still reached from the root.
C10_Witness ==
    /\ pc = "solving" /\ Len(stack) >= 2
    /\ \E n \in Reachable : mem[n].header # NULL
    /\ Cardinality(Reachable) < Len(mem) - 2
    /\ \A n \in Reachable : mem[mem[n].right].left = n /\ mem[mem[n].down].up = n

-----------------------------------------------------------------------------
(* The four iterators, one next() call at a time.  An iterator is          *)
(* [original, current]; a direction is "left", "right", "up" or "down".    *)

Directions == {"left", "right", "up", "down"}

\* Mutant of LeftNodeIterator::next: it reads `right`.
StepLeftReadsRight(h, node) == h[node].right

\* `let next = (*node).left` and its three siblings
StepLeft(h, node) == h[node].left

StepRight(h, node) == h[node].right

StepUp(h, node) == h[node].up

StepDown(h, node) == h[node].down

Step(h, dir, node) ==
    CASE dir = "left" -> StepLeft(h, node)
      [] dir = "right" -> StepRight(h, node)
      [] dir = "up" -> StepUp(h, node)
      [] dir = "down" -> StepDown(h, node)

\* Node::iter_left, iter_right, iter_up, iter_down
Iter(node) == [original |-> node, current |-> node]

\* Iterator::next: item is the node of Some(node), NULL for None
IterNext(h, dir, it) ==
    IF it.current = NULL
    THEN [item |-> NULL, it |-> it]
    ELSE LET node == it.current
             next == Step(h, dir, node)
         IN  [item |-> node,
              it |-> [it EXCEPT !.current = Advance(it.original, next)]]

\* The iterator after n calls of next, and the nodes those calls yielded.
RECURSIVE IterAfter(_, _, _, _)
IterAfter(h, dir, it, n) ==
    IF n = 0 THEN it ELSE IterAfter(h, dir, IterNext(h, dir, it).it, n - 1)

RECURSIVE Yielded(_, _, _, _)
Yielded(h, dir, it, n) ==
    IF n = 0 \/ it.current = NULL THEN <<>>
    ELSE LET got == IterNext(h, dir, it)
         IN  <<got.item>> \o Yielded(h, dir, got.it, n - 1)

-----------------------------------------------------------------------------
(* C11                                                                     *)

\* The link of node n in direction dir, read from the heap.
Link(n, dir) ==
    CASE dir = "left" -> mem[n].left
      [] dir = "right" -> mem[n].right
      [] dir = "up" -> mem[n].up
      [] dir = "down" -> mem[n].down

\* The nodes met by following dir from n.
RECURSIVE Along(_, _)
Along(dir, S) ==
    LET T == S \cup { Link(n, dir) : n \in S }
    IN  IF T = S THEN S ELSE Along(dir, T)

\* n is linked into its ring of direction dir: its neighbours point back.
InRing(n, dir) ==
    IF dir \in {"left", "right"}
    THEN mem[mem[n].left].right = n /\ mem[mem[n].right].left = n
    ELSE mem[mem[n].up].down = n /\ mem[mem[n].down].up = n

\* iter_<dir>(n) yields n, then the rest of the ring in order, each node
\* once, and the call after the last node returns None.
OnceAround(n, dir) ==
    LET ys == Yielded(mem, dir, Iter(n), Len(mem) + 1)
    IN  /\ IterAfter(mem, dir, Iter(n), Len(ys)).current = NULL
        /\ IterNext(mem, dir, IterAfter(mem, dir, Iter(n), Len(ys))).item = NULL
        /\ ys[1] = n
        /\ \A i, j \in DOMAIN ys : i # j => ys[i] # ys[j]
        /\ \A i \in 1..(Len(ys) - 1) : ys[i + 1] = Link(ys[i], dir)
        /\ Range(ys) = Along(dir, {n})
        /\ Link(n, dir) = n => ys = <<n>>

\* C11: in every matrix reached by new, add_solution and the search, for
\* every node that has not been deallocated and is linked into its ring,
\* iter_right, iter_left, iter_up and iter_down started at the node yield it
\* first, then every other node of the ring in that direction exactly once,
\* and then end; on a one-element ring they yield the node alone.
C11_IteratorsGoOnceAround ==
    Defined => \A n \in Allocated : \A dir \in Directions :
                  (freed[n] = 0 /\ InRing(n, dir)) => OnceAround(n, dir)

\* C11's case: inside a nested search, a data node whose row ring has three
\* nodes, a data node whose column ring has lost a node to a cover, a header
\* left alone in its column ring, and every iterator going once around.
C11_Witness ==
    /\ pc = "solving" /\ Len(stack) >= 2
    /\ \E n, k, e \in Allocated :
          /\ freed[n] = 0 /\ mem[n].header # NULL
          /\ Cardinality(Along("left", {n})) >= 3
          /\ OnceAround(n, "left") /\ OnceAround(n, "right")
          /\ freed[k] = 0 /\ mem[k].header # NULL /\ InRing(k, "up")
          /\ \E m \in Allocated : mem[m].header = mem[k].header /\ ~InRing(m, "up")
          /\ OnceAround(k, "up") /\ OnceAround(k, "down")
          /\ freed[e] = 0 /\ mem[e].header = NULL /\ mem[e].down = e /\ e # root
          /\ \A dir \in Directions : InRing(e, dir) => OnceAround(e, dir)

-----------------------------------------------------------------------------
(* The engine's other variant, src/structures/dancing_links/mod.rs ("lib"). *)
(* It differs from the first in new (the row table is sized up front), in  *)
(* add_solution (a null entry gives Ok(()), no entry is ever cleared) and  *)
(* in solve_helper (max_by, and the solution travels by value: the clone   *)
(* pushed for a row is dropped when the row fails, which partial_solution  *)
(* shows as a push and a pop).  The steps that are the same code are the   *)
(* actions of the first variant.                                           *)

\* new: `vec![null_mut(); num_rows]`, then the same two loops; no index
\* reaches the table's length, so the loops never resize.
LibNew(cs) ==
    LET h0 == NewHeader(<<>>, NULL, 0)
        table == [i \in 1..NumRows(cs) |-> NULL]
    IN  NewColumns([mem |-> h0, rows |-> table], 1, cs, 1)

\* add_solution up to the first cover_column call
LibAddSolutionCall(r) ==
    /\ pc = "ready"
    /\ engine = "lib"
    /\ Len(calls) < MaxAdds
    /\ IF r >= Len(rows)
       THEN /\ calls' = Record(r, "IndexError")
            /\ UNCHANGED <<partial_solution, pc, cur>>
       ELSE /\ partial_solution' = PushRow(partial_solution, r)
            /\ LET row == rows[r + 1] IN
               IF row = NULL
               THEN /\ calls' = Record(r, "Ok")
                    /\ UNCHANGED <<pc, cur>>
               ELSE IF freed[row] > 0
               THEN /\ \E res \in {"Ok", "Crash"} : calls' = Record(r, res)
                    /\ pc' = "ub"
                    /\ UNCHANGED cur
               ELSE /\ calls' = Record(r, "running")
                    /\ cur' = [row |-> row, it |-> row]
                    /\ pc' = "add_cover"
    /\ UNCHANGED trail
    /\ UNCHANGED <<engine, dsVars, skVars, mzVars>>
    /\ UNCHANGED <<constraints, mem, freed, root, rows, stack, ret, result>>

\* Iterator::max_by folds with `Greater => x, _ => y`: the last maximum.
RECURSIVE MaxByRow(_, _, _)
MaxByRow(h, best, rest) ==
    IF rest = <<>> THEN best
    ELSE MaxByRow(h,
                  IF Row(h, best) > Row(h, Head(rest)) THEN best ELSE Head(rest),
                  Tail(rest))

\* solve_helper: the column it branches on
LibChooseConstraint(h, rt) ==
    LET hs == Tail(IterRight(h, rt))
    IN  MaxByRow(h, Head(hs), Tail(hs))

\* solve_helper: is_empty, the choice of the column and its cover
LibHelperEnter ==
    /\ pc = "solving" /\ stack # <<>> /\ Top.pc = "enter"
    /\ engine = "lib"
    /\ IF IsEmpty(mem, root)
       THEN /\ stack' = Pop
            /\ ret' = "true"
            /\ UNCHANGED mem
       ELSE LET c == LibChooseConstraint(mem, root)
                h1 == CoverColumn(mem, c)
            IN  /\ mem' = h1
                /\ stack' = SetTop(Frame("rows", c, SkipDown(h1, c), NULL, NULL))
                /\ UNCHANGED ret
    /\ trail' = IF IsEmpty(mem, root) THEN PopTrail ELSE trail
    /\ UNCHANGED <<engine, dsVars, skVars, mzVars>>
    /\ UNCHANGED <<constraints, freed, root, rows, partial_solution, pc, cur,
                   calls, result>>

-----------------------------------------------------------------------------
(* The scenario of tests::miri_basic and tests::miri_add_solution, in both *)
(* variants: the seven constraints, at most one add_solution(3), solve.    *)

\* `let constraints = [vec![0, 1], vec![4, 5], ...]`
TestConstraints ==
    << <<0, 1>>, <<4, 5>>, <<3, 4>>, <<0, 1, 2>>, <<2, 3>>, <<3, 4>>,
       <<0, 2, 4, 5>> >>

\* `matrix.add_solution(3)`
TestRow == 3

Engines == {"solver", "lib"}

InitTest ==
    /\ engine \in Engines
    /\ constraints = TestConstraints
    /\ LET m == IF engine = "solver" THEN New(constraints) ELSE LibNew(constraints)
       IN  /\ mem = m.mem
           /\ freed = [n \in 1..Len(m.mem) |-> 0]
           /\ rows = m.rows
    /\ root = 1
    /\ partial_solution = <<>>
    /\ pc = "ready"
    /\ cur = [row |-> NULL, it |-> NULL]
    /\ stack = <<>>
    /\ ret = "none"
    /\ calls = <<>>
    /\ result = [status |-> "none", rows |-> <<>>]
    /\ trail = <<>>
    /\ SetIdle
    /\ SudokuIdle
    /\ MazeIdle

NextTest ==
    \/ calls = <<>> /\ engine = "solver" /\ AddSolutionCall(TestRow)
    \/ calls = <<>> /\ LibAddSolutionCall(TestRow)
    \/ AddSolutionCover
    \/ AddSolutionFree
    \/ SolveCall
    \/ engine = "solver" /\ HelperEnter
    \/ LibHelperEnter
    \/ HelperNextRow
    \/ HelperCover
    \/ HelperReturned
    \/ HelperFree
    \/ HelperUncover
    \/ SolveReturn
    \/ DropUnsolved

SpecTest == InitTest /\ [][NextTest]_vars

-----------------------------------------------------------------------------
(* C12                                                                     *)

\* C12: for the seven test constraints, with no pre-selection and after
\* add_solution(3), in both variants of the engine, solve returns Ok with
\* three rows that are 1, 3 and 5 in some order.
C12_TestMatrixSolves ==
    Solved => /\ result.status = "Ok"
              /\ Len(result.rows) = 3
              /\ Range(result.rows) = {1, 3, 5}

\* C12's case: the second variant has returned after add_solution(3), and
\* its search has found rows 1 and 5.
C12_Witness ==
    /\ Solved /\ engine = "lib" /\ result.status = "Ok"
    /\ calls = <<[row |-> TestRow, result |-> "Ok"]>>
    /\ Head(result.rows) = TestRow
    /\ Range(result.rows) = {1, 3, 5}

\* The other three runs of the scenario.
C12_SolverPreselected ==
    /\ Solved /\ engine = "solver" /\ calls # <<>> /\ Range(result.rows) = {1, 3, 5}

C12_SolverPlain ==
    /\ Solved /\ engine = "solver" /\ calls = <<>> /\ Range(result.rows) = {1, 3, 5}

C12_LibPlain ==
    /\ Solved /\ engine = "lib" /\ calls = <<>> /\ Range(result.rows) = {1, 3, 5}

-----------------------------------------------------------------------------
(* C13                                                                     *)

\* The column headers of heap h whose two row neighbours point back at them.
LinkedColumnsOf(h) ==
    { n \in DOMAIN h :
        /\ n # root /\ h[n].header = NULL
        /\ h[h[n].left].right = n /\ h[h[n].right].left = n }

\* C13: is_empty is true exactly when no column header is linked between its
\* neighbours; a step makes it true only by covering the one header still
\* linked, and covering the one header still linked makes it true; and for
\* an empty constraint list the first solve_helper call returns true without
\* a cover and solve returns Ok with no row.
C13_IsEmptyIffNoColumn ==
    [][ /\ Defined => (IsEmpty(mem, root) <=> LinkedColumnsOf(mem) = {})
        /\ Defined' => (IsEmpty(mem', root') <=> LinkedColumnsOf(mem') = {})
        /\ (Defined' /\ ~IsEmpty(mem, root) /\ IsEmpty(mem', root'))
              => \E c \in LinkedColumnsOf(mem) :
                    LinkedColumnsOf(mem) = {c} /\ mem' = CoverColumn(mem, c)
        /\ \A c \in LinkedColumnsOf(mem) :
              (Defined' /\ LinkedColumnsOf(mem) = {c} /\ mem' = CoverColumn(mem, c))
                 => IsEmpty(mem', root')
        /\ (constraints = <<>> /\ pc = "solving" /\ stack # <<>>)
              => (stack' = <<>> /\ ret' = "true" /\ mem' = mem)
        /\ (constraints = <<>> /\ pc' = "dropped" /\ result'.status # "none")
              => result' = [status |-> "Ok", rows |-> <<>>]
      ]_vars

\* C13's case: a search that went two levels down has just covered the last
\* linked header of a matrix of MaxCols columns, and is_empty is true.
C13_Witness ==
    /\ pc = "solving" /\ Len(stack) >= 3 /\ Top.pc = "enter"
    /\ Len(constraints) = MaxCols
    /\ IsEmpty(mem, root) /\ LinkedColumnsOf(mem) = {}

\* The empty list: solve has returned Ok with no row.
C13_EmptyListSolved ==
    /\ constraints = <<>> /\ Solved /\ result = [status |-> "Ok", rows |-> <<>>]

-----------------------------------------------------------------------------
(* C14                                                                     *)

\* The data nodes on the way down from header c back to it.
ColumnCells(c) == { n \in Along("down", {c}) : n # c }

\* C14: whenever a solve_helper call of the first variant finds the matrix
\* not empty, the column it covers and branches on is a header linked in the
\* root's ring, and no header linked in the root's ring has a smaller live
\* count or fewer rows left in its column.
C14_BranchesOnFewestRows ==
    [][ (pc = "solving" /\ stack # <<>> /\ Top.pc = "enter" /\ ~IsEmpty(mem, root))
           => LET c == stack'[Len(stack')].constraint
              IN  /\ Len(stack') = Len(stack)
                  /\ c \in Range(LinkedHeaders)
                  /\ mem' = CoverColumn(mem, c)
                  /\ \A h \in Range(LinkedHeaders) :
                        /\ mem[c].row <= mem[h].row
                        /\ Cardinality(ColumnCells(c)) <= Cardinality(ColumnCells(h))
      ]_vars

\* C14's case: a nested solve_helper call is about to choose among linked
\* columns of which the first in the ring is not the smallest.
C14_Witness ==
    /\ pc = "solving" /\ Len(stack) >= 2 /\ Top.pc = "enter"
    /\ Len(LinkedHeaders) >= 2
    /\ mem[ChooseConstraint(mem, root)].row < mem[Head(LinkedHeaders)].row
    /\ \A h \in Range(LinkedHeaders) :
          mem[ChooseConstraint(mem, root)].row <= mem[h].row

-----------------------------------------------------------------------------
(* C15                                                                     *)

\* What an add_solution call can be recorded with when it returns or aborts.
CallResults == {"IndexError", "InvalidRow", "Ok", "Crash", "running"}

\* The results add_solution(r) can have in the current state.
Outcomes(r) ==
    { x \in CallResults :
        ENABLED (AddSolutionCall(r) /\ calls'[Len(calls')].result = x) }

\* C15 (as claimed): two engines in the same state, which equal constraint
\* lists and equal add_solution sequences have led them to, get the same
\* result from the same next add_solution call, and so from the call chain.
C15_SameCallsSameResult ==
    pc = "ready" => \A r \in RowArgs : Cardinality(Outcomes(r)) <= 1

\* While no lookup entry points at a deallocated node, a call has one result.
CleanCallsSameResult ==
    (pc = "ready" /\ \A q \in DOMAIN rows : rows[q] # NULL => freed[rows[q]] = 0)
       => \A r \in RowArgs : Cardinality(Outcomes(r)) <= 1

\* Once a solve_helper call has returned true, the search covers, uncovers
\* and tries nothing more: the frames free their chains and return true, and
\* the partial solution stays as it is until solve hands it out.
FirstSuccessEndsSearch ==
    [][ (pc = "solving" /\ (ret = "true" \/ (stack # <<>> /\ Top.pc = "free")))
           => /\ mem' = mem
              /\ Len(stack') <= Len(stack)
              /\ \/ partial_solution' = partial_solution
                 \/ pc' = "dropped" /\ result'.rows = partial_solution
              /\ pc' = "solving" => (ret' = "true" \/ (stack' # <<>> /\ stack'[Len(stack')].pc = "free"))
      ]_vars

-----------------------------------------------------------------------------
(* Sudoku: puzzles/sudoku/mod.rs (solve, next_blank) and mask.rs (Mask).   *)
(* A grid is a sequence of GRID_SIZE * GRID_SIZE values, cell i at i + 1.  *)
(* mask.rs takes BOX_SIZE, NUM_MIN and NUM_MAX from mod.rs, where the      *)
(* source at hand does not define them; they have the values of the 9 x 9  *)
(* grid with 3 x 3 boxes and digits 1 to 9.                                *)

GRID_SIZE == 9

BOX_SIZE == 3

NUM_MIN == 1

NUM_MAX == 9

\* How many cells of the solved grid the inputs vary.
MaxHoles == 4

Cells == 0..(GRID_SIZE * GRID_SIZE - 1)

\* u16 arithmetic: `a | b`, `a & b`, `!a`, `1u16 << value`
RECURSIVE BitOr(_, _)
BitOr(a, b) ==
    IF a = 0 THEN b
    ELSE IF b = 0 THEN a
    ELSE (IF a % 2 = 1 \/ b % 2 = 1 THEN 1 ELSE 0) + 2 * BitOr(a \div 2, b \div 2)

RECURSIVE BitAnd(_, _)
BitAnd(a, b) ==
    IF a = 0 \/ b = 0 THEN 0
    ELSE (IF a % 2 = 1 /\ b % 2 = 1 THEN 1 ELSE 0) + 2 * BitAnd(a \div 2, b \div 2)

BitNot(a) == (2 ^ 16 - 1) - a

Shl(value) == (2 ^ value) % (2 ^ 16)

\* mask.rs: indicies
Indicies(index) ==
    LET row == index \div GRID_SIZE
        col == index % GRID_SIZE
    IN  [row |-> row, col |-> col,
         boxe |-> (row \div BOX_SIZE) * BOX_SIZE + col \div BOX_SIZE]

\* Mask::new
MaskNew ==
    [rows |-> [i \in 1..GRID_SIZE |-> 0],
     cols |-> [i \in 1..GRID_SIZE |-> 0],
     boxes |-> [i \in 1..GRID_SIZE |-> 0]]

\* Mask::set
MaskSet(mk, index, value) ==
    LET bit == Shl(value)
        at == Indicies(index)
    IN  [rows |-> [mk.rows EXCEPT ![at.row + 1] = BitOr(@, bit)],
         cols |-> [mk.cols EXCEPT ![at.col + 1] = BitOr(@, bit)],
         boxes |-> [mk.boxes EXCEPT ![at.boxe + 1] = BitOr(@, bit)]]

\* clear that leaves the column's and the box's words as they are
MaskClearRowOnly(mk, index, value) ==
    LET bits == BitNot(Shl(value))
        at == Indicies(index)
    IN  [rows |-> [mk.rows EXCEPT ![at.row + 1] = BitAnd(@, bits)],
         cols |-> mk.cols,
         boxes |-> mk.boxes]

\* Mask::clear
MaskClear(mk, index, value) ==
    LET bits == BitNot(Shl(value))
        at == Indicies(index)
    IN  [rows |-> [mk.rows EXCEPT ![at.row + 1] = BitAnd(@, bits)],
         cols |-> [mk.cols EXCEPT ![at.col + 1] = BitAnd(@, bits)],
         boxes |-> [mk.boxes EXCEPT ![at.boxe + 1] = BitAnd(@, bits)]]

\* Mask::candidates: (NUM_MIN..=NUM_MAX).filter(..).collect()
Candidates(mk, index) ==
    LET at == Indicies(index)
        used == BitOr(BitOr(mk.rows[at.row + 1], mk.cols[at.col + 1]),
                      mk.boxes[at.boxe + 1])
        Free(candidate) == BitAnd(used, Shl(candidate)) = 0
    IN  SelectSeq([i \in 1..(NUM_MAX - NUM_MIN + 1) |-> NUM_MIN + i - 1], Free)

\* next_blank: the first cell from `start` on that holds 0, with its
\* candidates; [some |-> FALSE] is None
NextBlank(pz, mk, start) ==
    LET blanks == { i \in start..(Len(pz) - 1) : pz[i + 1] = 0 }
    IN  IF blanks = {} THEN [some |-> FALSE]
        ELSE LET index == CHOOSE i \in blanks : \A j \in blanks : i <= j
             IN  [some |-> TRUE, index |-> index,
                  candidates |-> Candidates(mk, index)]

\* A Square on solve's stack
Square(nb) == [index |-> nb.index, candidates |-> nb.candidates]

\* The bits `mask.set(index, value)` has or-ed into one unit's word once the
\* loop over the givens has passed the cells of that unit (`|=` is
\* commutative and idempotent, so the word is the or of the unit's givens).
RECURSIVE GivenBits(_, _)
GivenBits(pz, unit) ==
    IF unit = {} THEN 0
    ELSE LET index == CHOOSE i \in unit : \A j \in unit : i <= j
             value == pz[index + 1]
         IN  BitOr(IF value = 0 THEN 0 ELSE Shl(value),
                   GivenBits(pz, unit \ {index}))

\* solve: `for (index, &value) in puzzle.iter().enumerate()` with
\* `if value != 0 { mask.set(index, value) }`, on Mask::new()
SetGivens(pz) ==
    LET InPuzzle == { i \in Cells : i < Len(pz) }
    IN  [rows |-> [k \in 1..GRID_SIZE |->
                     GivenBits(pz, { i \in InPuzzle : Indicies(i).row = k - 1 })],
         cols |-> [k \in 1..GRID_SIZE |->
                     GivenBits(pz, { i \in InPuzzle : Indicies(i).col = k - 1 })],
         boxes |-> [k \in 1..GRID_SIZE |->
                     GivenBits(pz, { i \in InPuzzle : Indicies(i).boxe = k - 1 })]]

\* tests: EASY_SOLVED
EasySolved ==
    << 4, 1, 5, 8, 3, 6, 2, 9, 7,
       8, 6, 3, 2, 7, 9, 1, 5, 4,
       7, 9, 2, 1, 5, 4, 8, 3, 6,
       9, 4, 1, 7, 8, 3, 6, 2, 5,
       2, 7, 6, 4, 9, 5, 3, 8, 1,
       5, 3, 8, 6, 1, 2, 4, 7, 9,
       1, 5, 4, 9, 2, 8, 7, 6, 3,
       3, 8, 7, 5, 6, 1, 9, 4, 2,
       6, 2, 9, 3, 4, 7, 5, 1, 8 >>

\* The cells the inputs vary, in the order the bound takes them.
HolePositions == <<54, 61, 62, 63, 55>>

Holes == { HolePositions[i] : i \in 1..MaxHoles }

\* What parse lets through for one cell: char::to_digit(10)
Digits == 0..9

\* The grids solve is called with: the solved grid with any digit, or a
\* blank, in each of the varied cells.
SudokuInputs ==
    { [i \in 1..Len(EasySolved) |->
          IF (i - 1) \in Holes THEN f[i - 1] ELSE EasySolved[i]] :
      f \in [Holes -> Digits] }

InitSudoku ==
    /\ input \in SudokuInputs
    /\ puzzle = <<>>
    /\ squares = <<>>
    /\ mask = <<>>
    /\ spc = "called"
    /\ solved = [status |-> "none"]
    /\ text = <<>>
    /\ parsed = [status |-> "none"]
    /\ EngineIdle
    /\ SetIdle
    /\ MazeIdle

\* solve up to the loop: the copy, the mask of the givens, the first blank
SolveBegin ==
    /\ spc = "called"
    /\ LET mk == SetGivens(input)
           nb == NextBlank(input, mk, 0)
       IN  /\ puzzle' = input
           /\ mask' = mk
           /\ IF nb.some
              THEN /\ squares' = <<Square(nb)>>
                   /\ spc' = "loop"
                   /\ UNCHANGED solved
              ELSE /\ solved' = [status |-> "Ok", grid |-> input]
                   /\ spc' = "done"
                   /\ UNCHANGED squares
    /\ UNCHANGED <<input, text, parsed, dlVars, dsVars, mzVars>>

\* solve: one pass of `while !stack.is_empty()`
SolveLoop ==
    /\ spc = "loop"
    /\ squares # <<>>
    /\ LET top == squares[Len(squares)]
           index == top.index
           previous == puzzle[index + 1]
           pz1 == IF previous # 0 THEN [puzzle EXCEPT ![index + 1] = 0] ELSE puzzle
           mk1 == IF previous # 0 THEN MaskClear(mask, index, previous) ELSE mask
       IN  IF top.candidates = <<>>
           THEN /\ squares' = SubSeq(squares, 1, Len(squares) - 1)
                /\ puzzle' = pz1
                /\ mask' = mk1
                /\ UNCHANGED <<spc, solved>>
           ELSE LET value == top.candidates[Len(top.candidates)]
                    rest == SubSeq(top.candidates, 1, Len(top.candidates) - 1)
                    pz2 == [pz1 EXCEPT ![index + 1] = value]
                    mk2 == MaskSet(mk1, index, value)
                    nb == NextBlank(pz2, mk2, index)
                    popped == [squares EXCEPT ![Len(squares)].candidates = rest]
                IN  /\ puzzle' = pz2
                    /\ mask' = mk2
                    /\ IF nb.some
                       THEN /\ squares' = Append(popped, Square(nb))
                            /\ UNCHANGED <<spc, solved>>
                       ELSE /\ squares' = popped
                            /\ solved' = [status |-> "Ok", grid |-> pz2]
                            /\ spc' = "done"
    /\ UNCHANGED <<input, text, parsed, dlVars, dsVars, mzVars>>

\* solve: `Err(SudokuError::NoSolution)` after the loop
SolveFail ==
    /\ spc = "loop"
    /\ squares = <<>>
    /\ solved' = [status |-> "NoSolution"]
    /\ spc' = "done"
    /\ UNCHANGED <<input, puzzle, squares, mask, text, parsed, dlVars, dsVars, mzVars>>

NextSudoku == SolveBegin \/ SolveLoop \/ SolveFail

SpecSudoku == InitSudoku /\ [][NextSudoku]_vars

-----------------------------------------------------------------------------
(* C16, C17                                                                *)

\* The cells that share a row, a column or a box with cell i.
PeersOf ==
    [i \in Cells |->
        { j \in Cells \ {i} :
            \/ i \div 9 = j \div 9
            \/ i % 9 = j % 9
            \/ (i \div 27 = j \div 27 /\ (i % 9) \div 3 = (j % 9) \div 3) }]

\* No digit of grid g is repeated in a row, a column or a box.
NoRepeat(g) ==
    \A i \in Cells : g[i + 1] # 0 => \A j \in PeersOf[i] : g[j + 1] # g[i + 1]

BlanksOf(g) == { i \in Cells : g[i + 1] = 0 }

\* Grid g has a completion: digits for its blanks that repeat nothing.
HasCompletion(g) ==
    /\ NoRepeat(g)
    /\ \E f \in [BlanksOf(g) -> NUM_MIN..NUM_MAX] :
          \A b \in BlanksOf(g) : \A j \in PeersOf[b] :
             (IF j \in BlanksOf(g) THEN f[j] ELSE g[j + 1]) # f[b]

\* C16 (as claimed): when solve returns Ok(grid), the grid has no zero, has
\* every non-zero cell of the input unchanged, and repeats no digit in a
\* row, a column or a box.
C16_OkGridIsValid ==
    solved.status = "Ok" =>
       /\ \A i \in Cells : solved.grid[i + 1] # 0
       /\ \A i \in Cells : input[i + 1] # 0 => solved.grid[i + 1] = input[i + 1]
       /\ NoRepeat(solved.grid)

\* For givens that repeat no digit, the Ok grid is a completion of the input.
ConsistentOkGridIsValid ==
    (solved.status = "Ok" /\ NoRepeat(input)) =>
       /\ \A i \in Cells : solved.grid[i + 1] \in NUM_MIN..NUM_MAX
       /\ \A i \in Cells : input[i + 1] # 0 => solved.grid[i + 1] = input[i + 1]
       /\ NoRepeat(solved.grid)

\* Whatever the givens, the Ok grid has no zero and keeps the givens.
OkGridKeepsGivens ==
    solved.status = "Ok" =>
       /\ \A i \in Cells : solved.grid[i + 1] \in NUM_MIN..NUM_MAX
       /\ \A i \in Cells : input[i + 1] # 0 => solved.grid[i + 1] = input[i + 1]

\* C17 (as claimed): solve returns NoSolution exactly when the input grid has
\* no completion, and Ok whenever it has one.
C17_NoSolutionIffNoCompletion ==
    spc = "done" => (solved.status = "NoSolution" <=> ~HasCompletion(input))

\* For givens that repeat no digit, NoSolution means no completion.
ConsistentNoSolutionIffNoCompletion ==
    (spc = "done" /\ NoRepeat(input))
       => (solved.status = "NoSolution" <=> ~HasCompletion(input))

\* A search that gave up a digit and still ended Ok, on consistent givens.
SudokuBacktracked ==
    /\ spc = "loop" /\ NoRepeat(input) /\ HasCompletion(input)
    /\ squares # <<>> /\ squares[Len(squares)].candidates = <<>>

\* A search that ran out of digits on consistent givens.
SudokuExhausted ==
    /\ spc = "done" /\ NoRepeat(input) /\ solved.status = "NoSolution"

-----------------------------------------------------------------------------
(* DisjointSet (structures/disjoint_set.rs)                                *)

\* The most elements a set is given.
MaxSize == 4

\* The indices the calls are made with: every element of the largest set,
\* and MaxSize, which is never an element.
Indices == 0..MaxSize

\* Option: None and Some(x)
None == [some |-> FALSE]

Some(x) == [some |-> TRUE, value |-> x]

\* Element::new
ElementNew == [root |-> TRUE, value |-> 1]

\* Element::from_parent
ElementFromParent(parent) == [root |-> FALSE, value |-> parent]

\* DisjointSet::with_size: `vec![Element::new(); size]`
WithSize(size) == [i \in 1..size |-> ElementNew]

\* find_helper that finds the root and rewrites no parent
RECURSIVE FindHelperNoCompression(_, _)
FindHelperNoCompression(els, idx) ==
    IF els[idx + 1].root THEN [root |-> idx, elements |-> els]
    ELSE [root |-> FindHelperNoCompression(els, els[idx + 1].value).root,
          elements |-> els]

\* find_helper that looks one parent up and compresses nothing
FindHelperOneStep(els, idx) ==
    IF els[idx + 1].root THEN [root |-> idx, elements |-> els]
    ELSE [root |-> els[idx + 1].value, elements |-> els]

\* find_helper: the root of idx, and the elements with every element on the
\* way given the root as its parent
RECURSIVE FindHelper(_, _)
FindHelper(els, idx) ==
    IF els[idx + 1].root THEN [root |-> idx, elements |-> els]
    ELSE LET up == FindHelper(els, els[idx + 1].value)
         IN  [root |-> up.root,
              elements |-> [up.elements EXCEPT ![idx + 1].value = up.root]]

\* find
Find(els, idx) ==
    IF idx >= Len(els) THEN [result |-> None, elements |-> els]
    ELSE LET found == FindHelper(els, idx)
         IN  [result |-> Some(found.root), elements |-> found.elements]

\* common_set with the second None read as "not the same set"
CommonSetNoneIsFalse(els, idx_one, idx_two) ==
    LET one == Find(els, idx_one)
    IN  IF ~one.result.some THEN [result |-> None, elements |-> one.elements]
        ELSE LET two == Find(one.elements, idx_two)
             IN  IF ~two.result.some
                 THEN [result |-> Some(FALSE), elements |-> two.elements]
                 ELSE [result |-> Some(one.result.value = two.result.value),
                       elements |-> two.elements]

\* common_set: `Some(self.find(idx_one)? == self.find(idx_two)?)`
CommonSet(els, idx_one, idx_two) ==
    LET one == Find(els, idx_one)
    IN  IF ~one.result.some THEN [result |-> None, elements |-> one.elements]
        ELSE LET two == Find(one.elements, idx_two)
             IN  IF ~two.result.some
                 THEN [result |-> None, elements |-> two.elements]
                 ELSE [result |-> Some(one.result.value = two.result.value),
                       elements |-> two.elements]

\* union's choice with `<=` for `<`
SmallerLargerTieToFirst(els, root_one, root_two) ==
    IF els[root_one + 1].value <= els[root_two + 1].value
    THEN [smaller_idx |-> root_one, larger_idx |-> root_two]
    ELSE [smaller_idx |-> root_two, larger_idx |-> root_one]

\* union: `let (smaller_idx, larger_idx) = if .. < .. {..} else {..}`
SmallerLarger(els, root_one, root_two) ==
    IF els[root_one + 1].value < els[root_two + 1].value
    THEN [smaller_idx |-> root_one, larger_idx |-> root_two]
    ELSE [smaller_idx |-> root_two, larger_idx |-> root_one]

\* union: `elements[larger_idx].value += elements[smaller_idx].value;
\* elements[smaller_idx] = Element::from_parent(larger_idx); Some(smaller_idx)`
Attach(els, pick) ==
    LET grown == [els EXCEPT ![pick.larger_idx + 1].value =
                                 @ + els[pick.smaller_idx + 1].value]
    IN  [result |-> Some(pick.smaller_idx),
         elements |-> [grown EXCEPT ![pick.smaller_idx + 1] =
                                       ElementFromParent(pick.larger_idx)]]

\* union
Union(els, idx_one, idx_two) ==
    LET one == Find(els, idx_one)
    IN  IF ~one.result.some THEN [result |-> None, elements |-> one.elements]
        ELSE LET two == Find(one.elements, idx_two)
             IN  IF ~two.result.some
                 THEN [result |-> None, elements |-> two.elements]
                 ELSE IF one.result.value = two.result.value
                 THEN [result |-> Some(one.result.value), elements |-> two.elements]
                 ELSE Attach(two.elements,
                             SmallerLarger(two.elements, one.result.value,
                                           two.result.value))

\* DisjointSet::new() or with_size(size)
InitSet ==
    /\ \E size \in 0..MaxSize : elements = WithSize(size)
    /\ unions = {}
    /\ last = [op |-> "none"]
    /\ EngineIdle
    /\ SudokuIdle
    /\ MazeIdle

\* The elements a call rewrote.
Rewritten(call) == { k \in 0..(Len(elements) - 1) : call.elements[k + 1] # elements[k + 1] }

\* add()
AddCall ==
    /\ Len(elements) < MaxSize
    /\ elements' = Append(elements, ElementNew)
    /\ last' = [op |-> "add"]
    /\ UNCHANGED <<unions, dlVars, skVars, mzVars>>

\* find(idx)
FindCall(idx) ==
    LET call == Find(elements, idx)
    IN  /\ elements' = call.elements
        /\ last' = [op |-> "find", one |-> idx, result |-> call.result,
                    rewritten |-> Rewritten(call)]
        /\ UNCHANGED <<unions, dlVars, skVars, mzVars>>

\* common_set(idx_one, idx_two)
CommonSetCall(idx_one, idx_two) ==
    LET call == CommonSet(elements, idx_one, idx_two)
    IN  /\ elements' = call.elements
        /\ last' = [op |-> "common_set", one |-> idx_one, two |-> idx_two,
                    result |-> call.result, rewritten |-> Rewritten(call)]
        /\ UNCHANGED <<unions, dlVars, skVars, mzVars>>

\* union(idx_one, idx_two); `unions` keeps the pairs of different elements
\* that a call has united
UnionCall(idx_one, idx_two) ==
    LET call == Union(elements, idx_one, idx_two)
    IN  /\ elements' = call.elements
        /\ last' = [op |-> "union", one |-> idx_one, two |-> idx_two,
                    result |-> call.result, rewritten |-> Rewritten(call)]
        /\ unions' = IF call.result.some /\ idx_one # idx_two
                     THEN unions \cup {{idx_one, idx_two}}
                     ELSE unions
        /\ UNCHANGED <<dlVars, skVars, mzVars>>

NextSet ==
    \/ AddCall
    \/ \E idx \in Indices : FindCall(idx)
    \/ \E idx_one \in Indices : \E idx_two \in Indices : CommonSetCall(idx_one, idx_two)
    \/ \E idx_one \in Indices : \E idx_two \in Indices : UnionCall(idx_one, idx_two)

SpecSet == InitSet /\ [][NextSet]_vars

-----------------------------------------------------------------------------
(* C18, C19, C20                                                           *)

\* The indices that are elements.
InRange == 0..(Len(elements) - 1)

\* The elements a chain of the pairs in U leads to from those of S.
RECURSIVE UnitedBy(_, _)
UnitedBy(U, S) ==
    LET more == S \cup { k \in InRange : \E m \in S : {m, k} \in U }
    IN  IF more = S THEN S ELSE UnitedBy(U, more)

\* The same for the unions performed so far.
UnitedWith(S) == UnitedBy(unions, S)

Connected(i, j) == j \in UnitedWith({i})

\* C18: for in-range i and j, common_set(i, j) returns Some(true) if and
\* only if i = j or a chain of the unions performed so far connects them
\* (and Some(false) otherwise), find gives i and j the same representative
\* exactly in that case, and the common_set call that has just returned
\* answered so.
C18_CommonSetIffConnected ==
    /\ \A i \in InRange : \A j \in InRange :
          /\ CommonSet(elements, i, j).result = Some(Connected(i, j))
          /\ (Find(elements, i).result = Find(elements, j).result) <=> Connected(i, j)
          /\ LET one == Find(elements, i)
                 two == Find(one.elements, j)
             IN  /\ one.result.some /\ two.result.some
                 /\ (one.result.value = two.result.value) <=> Connected(i, j)
    /\ (last.op = "common_set" /\ last.one \in InRange /\ last.two \in InRange)
          => last.result = Some(Connected(last.one, last.two))

\* common_set has answered Some(true) for two elements no single union named,
\* rewriting an element on the way.
C18_Witness ==
    /\ last.op = "common_set"
    /\ last.result = Some(TRUE)
    /\ last.one # last.two
    /\ {last.one, last.two} \notin unions
    /\ last.rewritten # {}

\* The root at the end of i's parent chain if at most n parents lead to it,
\* else -1.
RECURSIVE RootWithin(_, _)
RootWithin(i, n) ==
    IF i \notin InRange THEN -1
    ELSE IF elements[i + 1].root THEN i
    ELSE IF n = 0 THEN -1
    ELSE RootWithin(elements[i + 1].value, n - 1)

\* Every root stores the size of its set, every other element a parent of
\* its own set, and every parent chain ends in a root.
SizesAndParents ==
    \A i \in InRange :
       IF elements[i + 1].root
       THEN elements[i + 1].value = Cardinality(UnitedWith({i}))
       ELSE /\ elements[i + 1].value \in InRange
            /\ elements[i + 1].value # i
            /\ Connected(i, elements[i + 1].value)
            /\ RootWithin(i, Len(elements)) # -1

\* The union(one, two) that has just returned joined two sets: it changed a
\* root.
Joined ==
    /\ last.op = "union"
    /\ \E k \in last.rewritten : elements[k + 1].root

\* After a union(one, two) that joined two sets, the root of the joined set
\* is an element of what was the larger set (on equal sizes, of one's set),
\* and of what was the other set exactly one element has its parent outside:
\* the element that no parent inside leads away from, now under that root.
UnionBySize ==
    Joined =>
       LET before == unions \ {{last.one, last.two}}
           set_one == UnitedBy(before, {last.one})
           set_two == UnitedBy(before, {last.two})
           smaller == IF Cardinality(set_one) < Cardinality(set_two)
                      THEN set_one ELSE set_two
           larger == IF Cardinality(set_one) < Cardinality(set_two)
                     THEN set_two ELSE set_one
           over == RootWithin(last.one, Len(elements))
           leaving == { k \in smaller : elements[k + 1].value \notin smaller }
       IN  /\ set_one \cap set_two = {}
           /\ over \in larger
           /\ \A k \in larger \ {over} : elements[k + 1].value \in larger
           /\ Cardinality(leaving) = 1
           /\ \A k \in leaving : elements[k + 1] = ElementFromParent(over)
           /\ \A k \in smaller : RootWithin(k, Len(elements)) = over

\* C19: after any sequence of add and union calls every root stores the
\* number of elements of its set, every non-root the index of a parent in the
\* same set, with parent chains reaching a root; a union of two different
\* sets attaches the root of the smaller under the root of the larger, and on
\* equal sizes the second argument's root under the first's.
C19_RootsStoreSizeUnionBySize == SizesAndParents /\ UnionBySize

\* union(one, two) of two sets of two elements each has put two's root, with
\* the element under it, under one's root, which now stores 4.
C19_Witness ==
    /\ last.op = "union"
    /\ last.one # last.two
    /\ last.result = Some(last.two)
    /\ elements[last.one + 1] = [root |-> TRUE, value |-> 4]
    /\ elements[last.two + 1] = ElementFromParent(last.one)
    /\ \E k \in InRange : elements[k + 1] = ElementFromParent(last.two)
    /\ \E k \in InRange \ {last.two} : elements[k + 1] = ElementFromParent(last.one)

\* The elements on the way from idx up to, not including, its root.
RECURSIVE PathOf(_, _)
PathOf(els, idx) ==
    IF els[idx + 1].root THEN {}
    ELSE {idx} \cup PathOf(els, els[idx + 1].value)

\* The step left every element as it was, apart from elements on the way
\* from an element of `from` to its root, which may have the root as parent.
OnlyCompressed(from) ==
    /\ Len(elements') = Len(elements)
    /\ \A k \in InRange :
          \/ elements'[k + 1] = elements[k + 1]
          \/ \E idx \in from \cap InRange :
                /\ k \in PathOf(elements, idx)
                /\ elements'[k + 1] =
                      ElementFromParent(RootWithin(idx, Len(elements)))

\* C20: find(i), common_set(i, j) and union(i, j) return None whenever an
\* index is greater than or equal to the number of elements, and in that case
\* leave every element unchanged apart from path compression on the in-range
\* index.
C20_OutOfRangeIsNone ==
    [][ /\ (last'.op = "find" /\ last'.one \notin InRange)
           => (last'.result = None /\ elements' = elements)
        /\ (last'.op \in {"common_set", "union"}
               /\ (last'.one \notin InRange \/ last'.two \notin InRange))
           => (last'.result = None /\ OnlyCompressed({last'.one, last'.two}))
      ]_vars

\* union has returned None for an out-of-range second index after the find
\* of the first rewrote an element.
C20_Witness ==
    /\ last.op = "union"
    /\ last.result = None
    /\ last.one \in InRange
    /\ last.two \notin InRange
    /\ last.rewritten # {}

\* An out-of-range first index returns None before the second is looked at:
\* nothing is rewritten.
FirstOutOfRangeRewritesNothing ==
    (last.op \in {"common_set", "union"} /\ last.one \notin InRange)
       => (last.result = None /\ last.rewritten = {})

-----------------------------------------------------------------------------
(* C21                                                                     *)

\* The root at the end of the parent chain of i in els, -1 if the chain
\* leaves els or is longer than n.
RECURSIVE RootIn(_, _, _)
RootIn(els, i, n) ==
    IF i \notin 0..(Len(els) - 1) THEN -1
    ELSE IF els[i + 1].root THEN i
    ELSE IF n = 0 THEN -1
    ELSE RootIn(els, els[i + 1].value, n - 1)

\* C21: after find(i) has returned root r, every non-root element on the
\* former parent chain from i to r points directly at r, and the partition
\* into sets and every root's stored size are as before the call.
C21_FindCompressesPath ==
    [][ (last'.op = "find" /\ last'.result.some) =>
           LET r == last'.result.value
           IN  /\ r = RootIn(elements, last'.one, Len(elements))
               /\ \A k \in PathOf(elements, last'.one) :
                     elements'[k + 1] = ElementFromParent(r)
               /\ Len(elements') = Len(elements)
               /\ \A k \in InRange :
                     /\ RootIn(elements', k, Len(elements))
                           = RootIn(elements, k, Len(elements))
                     /\ elements[k + 1].root => elements'[k + 1] = elements[k + 1]
      ]_vars

\* find has returned after giving an element a new parent: the root, two
\* parents up.
C21_Witness ==
    /\ last.op = "find"
    /\ last.result.some
    /\ last.one \in last.rewritten
    /\ elements[last.one + 1] = ElementFromParent(last.result.value)

-----------------------------------------------------------------------------
(* The Sudoku parse (puzzles/sudoku/mod.rs).  A string is the sequence of  *)
(* its chars, a char a string of length one.                               *)

\* How many of the test string's chars the inputs vary.
MaxVaried == 2

\* How many chars the inputs are shorter or longer than the grid.
MaxExtra == 1

\* char::to_digit(10) on the chars it accepts
DigitOf ==
    "0" :> 0 @@ "1" :> 1 @@ "2" :> 2 @@ "3" :> 3 @@ "4" :> 4 @@
    "5" :> 5 @@ "6" :> 6 @@ "7" :> 7 @@ "8" :> 8 @@ "9" :> 9

\* `char.to_digit(10).map(|x| x as u8)`
ToDigit(char) ==
    IF char \in DOMAIN DigitOf THEN Some(DigitOf[char]) ELSE None

\* parse with the size checked before the chars
ParseSizeFirst(chars) ==
    LET bad == { i \in DOMAIN chars : ~ToDigit(chars[i]).some }
    IN  IF Len(chars) # GRID_SIZE * GRID_SIZE
        THEN [status |-> "InvalidSize", len |-> Len(chars)]
        ELSE IF bad # {}
        THEN [status |-> "InvalidInteger",
              char |-> chars[CHOOSE i \in bad : \A j \in bad : i <= j]]
        ELSE [status |-> "Ok", grid |-> [i \in DOMAIN chars |-> ToDigit(chars[i]).value]]

\* parse: collect() stops at the first Err(InvalidInteger(char)); then the
\* size check
Parse(chars) ==
    LET bad == { i \in DOMAIN chars : ~ToDigit(chars[i]).some }
    IN  IF bad # {}
        THEN [status |-> "InvalidInteger",
              char |-> chars[CHOOSE i \in bad : \A j \in bad : i <= j]]
        ELSE IF Len(chars) # GRID_SIZE * GRID_SIZE
        THEN [status |-> "InvalidSize", len |-> Len(chars)]
        ELSE [status |-> "Ok", grid |-> [i \in DOMAIN chars |-> ToDigit(chars[i]).value]]

\* tests: EASY_STRING
EasyString ==
    << "4", "1", "5", "8", "3", "0", "0", "9", "0",
       "0", "0", "3", "0", "0", "9", "1", "0", "4",
       "0", "0", "2", "1", "5", "0", "0", "0", "6",
       "9", "0", "0", "7", "8", "3", "0", "0", "0",
       "2", "0", "0", "0", "0", "0", "3", "8", "1",
       "5", "0", "0", "0", "1", "2", "4", "0", "0",
       "0", "0", "4", "9", "0", "0", "0", "6", "3",
       "3", "8", "0", "5", "0", "0", "0", "4", "0",
       "0", "0", "9", "3", "0", "7", "5", "0", "0" >>

\* The chars an input has in a varied place.
Chars == DOMAIN DigitOf \cup {"a", " ", "-"}

\* The places varied: the first char, the last char of a grid, one between.
VariedPlaces == <<1, 81, 40>>

Varied == { VariedPlaces[i] : i \in 1..MaxVaried }

\* The lengths of the inputs: the empty string, and around the grid's size.
Lengths ==
    {0} \cup ((GRID_SIZE * GRID_SIZE - MaxExtra)..(GRID_SIZE * GRID_SIZE + MaxExtra))

\* The strings parse is called with: the test string with any char in the
\* varied places, cut or padded with "0" to each length.
ParseInputs ==
    { [i \in 1..n |-> IF i \in Varied THEN f[i]
                      ELSE IF i <= Len(EasyString) THEN EasyString[i] ELSE "0"] :
      f \in [Varied -> Chars], n \in Lengths }

InitParse ==
    /\ text \in ParseInputs
    /\ parsed = [status |-> "none"]
    /\ input = <<>>
    /\ puzzle = <<>>
    /\ squares = <<>>
    /\ mask = <<>>
    /\ spc = "idle"
    /\ solved = [status |-> "none"]
    /\ EngineIdle
    /\ SetIdle
    /\ MazeIdle

\* parse(puzzle)
ParseCall ==
    /\ parsed.status = "none"
    /\ parsed' = Parse(text)
    /\ UNCHANGED <<text, input, puzzle, squares, mask, spc, solved, dlVars, dsVars, mzVars>>

NextParse == ParseCall

SpecParse == InitParse /\ [][NextParse]_vars

-----------------------------------------------------------------------------
(* C22                                                                     *)

\* The ten decimal digits, in order of value.
DecimalDigits == <<"0", "1", "2", "3", "4", "5", "6", "7", "8", "9">>

\* The value of a decimal digit.
ValueOf(char) == (CHOOSE d \in DOMAIN DecimalDigits : DecimalDigits[d] = char) - 1

\* The places of the string that hold no decimal digit.
NonDigits == { i \in DOMAIN text : text[i] \notin Range(DecimalDigits) }

\* C22: parse returns Ok with the digit values in input order exactly when
\* the string consists of exactly 81 decimal digits; a string containing a
\* non-digit character yields InvalidInteger for the first such character,
\* and an all-digit string of another length yields InvalidSize with that
\* length.
C22_ParseOkIff81Digits ==
    parsed.status # "none" =>
       /\ parsed.status = "Ok" <=> (Len(text) = 81 /\ NonDigits = {})
       /\ parsed.status = "Ok" =>
             parsed.grid = [i \in 1..81 |-> ValueOf(text[i])]
       /\ NonDigits # {} =>
             /\ parsed.status = "InvalidInteger"
             /\ \E i \in NonDigits :
                   /\ \A j \in NonDigits : i <= j
                   /\ parsed.char = text[i]
       /\ (NonDigits = {} /\ Len(text) # 81) =>
             /\ parsed.status = "InvalidSize"
             /\ parsed.len = Len(text)

\* parse has returned InvalidInteger for a string of the wrong length that
\* holds two different non-digits.
C22_Witness ==
    /\ parsed.status = "InvalidInteger"
    /\ Len(text) # 81
    /\ \E i, j \in NonDigits : text[i] # text[j]

\* The other two outcomes: the test string parsed, and a string of 82 digits.
C22_ParsedTestString ==
    /\ parsed.status = "Ok" /\ text = EasyString /\ parsed.grid[4] = 8

C22_WrongSize ==
    /\ parsed.status = "InvalidSize" /\ parsed.len = 82

-----------------------------------------------------------------------------
(* C23, C24                                                                *)

\* The nodes the running call holds in an iterator or a local.
Held ==
    (IF pc \in {"add_cover", "add_free"} THEN {cur.row, cur.it} ELSE {})
    \cup (IF pc = "solving"
          THEN UNION { {stack[i].constraint, stack[i].rowIt, stack[i].row,
                        stack[i].colIt} : i \in DOMAIN stack }
          ELSE {})

\* C23 (as claimed): no sequence of new, add_solution calls with arbitrary
\* row indices and solve or drop reads or writes a node after it has been
\* deallocated: no add_solution dereferences a lookup entry that points at a
\* freed node, and no running call holds a freed node.
C23_NoUseAfterFree ==
    /\ pc # "ub"
    /\ pc # "dropped" => \A n \in Held \ {NULL} : freed[n] = 0

\* Up to the dereference of a dangling lookup entry, no call holds a node
\* that has been deallocated, and no node is deallocated twice.
HeldNodesLive ==
    Defined => /\ \A n \in Held \ {NULL} : freed[n] = 0
               /\ \A n \in Allocated : freed[n] <= 1

\* C24 (as claimed): an add_solution call that returns IndexError or
\* InvalidRow leaves the partial solution, the row-lookup table and the
\* matrix links unchanged.
C24_ErrorLeavesStateUnchanged ==
    [][ (Len(calls') > Len(calls)
            /\ calls'[Len(calls')].result \in {"IndexError", "InvalidRow"})
           => /\ partial_solution' = partial_solution
              /\ rows' = rows
              /\ mem' = mem
      ]_vars

\* A call that returns an error leaves the table and the links unchanged, and
\* one that returns IndexError the partial solution as well.
ErrorKeepsTableAndLinks ==
    [][ (Len(calls') > Len(calls)
            /\ calls'[Len(calls')].result \in {"IndexError", "InvalidRow"})
           => /\ rows' = rows
              /\ mem' = mem
              /\ freed' = freed
              /\ calls'[Len(calls')].result = "IndexError"
                    => partial_solution' = partial_solution
      ]_vars

-----------------------------------------------------------------------------
(* The search on matrices large enough to fail below the first call: any   *)
(* selection of the columns of the tests' matrix, in their order, with one *)
(* of the rows left out or none.                                           *)

RECURSIVE Selection(_, _)
Selection(cs, keep) ==
    IF cs = <<>> THEN <<>>
    ELSE (IF Len(cs) \in keep THEN <<Head(cs)>> ELSE <<>>)
            \o Selection(Tail(cs), keep)

\* The columns without one row.
Without(cs, r) ==
    [i \in 1..Len(cs) |-> SelectSeq(cs[i], LAMBDA x : x # r)]

SearchInputs ==
    { Selection(Without(TestConstraints, r), keep) :
        r \in 0..6, keep \in SUBSET (1..Len(TestConstraints)) }

InitSearch ==
    /\ constraints \in SearchInputs
    /\ mem = New(constraints).mem
    /\ freed = [n \in 1..Len(New(constraints).mem) |-> 0]
    /\ root = 1
    /\ rows = New(constraints).rows
    /\ partial_solution = <<>>
    /\ pc = "ready"
    /\ cur = [row |-> NULL, it |-> NULL]
    /\ stack = <<>>
    /\ ret = "none"
    /\ calls = <<>>
    /\ result = [status |-> "none", rows |-> <<>>]
    /\ engine = "solver"
    /\ trail = <<>>
    /\ SetIdle
    /\ SudokuIdle
    /\ MazeIdle

SpecSearch == InitSearch /\ [][Next]_vars

-----------------------------------------------------------------------------
(* C25, C26                                                                *)

\* This step is the return of `false` from the innermost solve_helper call.
ReturnsFalse ==
    /\ pc = "solving" /\ stack # <<>>
    /\ Len(stack') < Len(stack)
    /\ ret' = "false"

\* C25: whenever a call of solve_helper returns false, every node's four
\* pointers, every header's live count and the partial solution are what
\* they were when that call was entered; for the outermost call that is the
\* matrix as it was before solve.
C25_FalseRestoresMatrix ==
    [][ ReturnsFalse => /\ mem' = Trail.mem
                        /\ partial_solution' = Trail.partial_solution
                        /\ Len(stack) = 1 => mem' = trail[1].mem
      ]_vars

\* A call made for a tried row has returned false, after branching on a
\* column that had a row to try, while the covers of its caller are in place.
C25_Witness ==
    /\ pc = "solving" /\ ret = "false"
    /\ stack # <<>> /\ Top.pc = "call"
    /\ mem # trail[1].mem
    /\ ~IsEmpty(mem, root)
    /\ mem[ChooseConstraint(mem, root)].row >= 1

\* The outermost call has returned false after branching on a column that
\* had a row to try.
C25_OutermostFailed ==
    /\ pc = "solving" /\ ret = "false" /\ stack = <<>>
    /\ ~IsEmpty(mem, root)
    /\ mem[ChooseConstraint(mem, root)].row >= 1

\* The sequence s backwards.
Reverse(s) == [i \in 1..Len(s) |-> s[Len(s) + 1 - i]]

\* Header c is linked between its neighbours in heap h.
LinkedIn(h, c) == h[h[c].left].right = c /\ h[h[c].right].left = c

\* C26: within one solve_helper frame, after a failed recursive call the
\* columns of the tried row are uncovered in exactly the reverse of the order
\* in which they were covered, the row is popped from the partial solution
\* before the next row is tried, and the branch column is uncovered only
\* after all rows have been tried.
C26_UncoverInReverseThenPop ==
    [][ (pc = "solving" /\ stack # <<>> /\ Len(stack') = Len(stack)) =>
           LET now == trail'[Len(trail')]
           IN  \* each uncover continues the covers backwards
               /\ Len(now.uncovered) > Len(Trail.uncovered) =>
                     /\ now.covered = Trail.covered
                     /\ Len(now.uncovered) <= Len(now.covered)
                     /\ \A i \in DOMAIN now.uncovered :
                           now.uncovered[i] = Reverse(now.covered)[i]
               \* the pop comes when every cover is undone, and removes the row
               /\ Len(partial_solution') < Len(partial_solution) =>
                     /\ Trail.uncovered = Reverse(Trail.covered)
                     /\ partial_solution' = Trail.partial_solution
               \* the next row is tried on the partial solution of the entry
               /\ now.tried # Trail.tried =>
                     /\ partial_solution = Trail.partial_solution
                     /\ Trail.uncovered = Reverse(Trail.covered)
      ]_vars
    /\ [][ (pc = "solving" /\ stack # <<>> /\ Top.constraint # NULL
               /\ ~LinkedIn(mem, Top.constraint) /\ LinkedIn(mem', Top.constraint))
              => /\ Trail.tried = Tail(IterDown(mem, Top.constraint))
                 /\ Trail.uncovered = Reverse(Trail.covered)
                 /\ partial_solution = Trail.partial_solution
         ]_vars

\* A frame has undone the two covers of a failed row, last cover first, and
\* popped the row.
C26_Witness ==
    /\ pc = "solving" /\ stack # <<>> /\ Top.pc = "rows"
    /\ Len(Trail.covered) >= 2
    /\ Trail.uncovered = Reverse(Trail.covered)
    /\ partial_solution = Trail.partial_solution

-----------------------------------------------------------------------------
(* cover_column and uncover_column statement by statement: the primitive   *)
(* operations in the order the loops run them, each found on the heap the  *)
(* operations before it have left.                                         *)

Event(o, n) == [op |-> o, node |-> n]

\* cover_column: the body of `for col in iter_right(row).skip(1)`
RECURSIVE CoverCellEvents(_, _, _)
CoverCellEvents(h, row, col) ==
    IF col = NULL THEN <<>>
    ELSE LET next == Advance(row, h[col].right)
         IN  <<Event("cover_vertical", col), Event("decrement", h[col].header)>>
                \o CoverCellEvents(CoverCell(h, col), row, next)

\* cover_column: `for row in iter_down(node).skip(1)`
RECURSIVE CoverRowEvents(_, _, _)
CoverRowEvents(h, node, row) ==
    IF row = NULL THEN <<>>
    ELSE LET next == Advance(node, h[row].down)
             first == SkipRight(h, row)
         IN  CoverCellEvents(h, row, first)
                \o CoverRowEvents(CoverRowCells(h, row, first), node, next)

\* Mutant of the order of cover_column: the header is unlinked after the loop.
CoverEventsHeaderLast(h, n) ==
    LET node == ResolveHeader(h, n)
    IN  CoverRowEvents(h, node, SkipDown(h, node))
            \o <<Event("cover_horizontal", node)>>

\* Node::cover_column
CoverEvents(h, n) ==
    LET node == ResolveHeader(h, n)
        h1 == CoverHorizontal(h, node)
    IN  <<Event("cover_horizontal", node)>>
            \o CoverRowEvents(h1, node, SkipDown(h1, node))

\* uncover_column: the body of `for col in iter_left(row).skip(1)`
RECURSIVE UncoverCellEvents(_, _, _)
UncoverCellEvents(h, row, col) ==
    IF col = NULL THEN <<>>
    ELSE LET next == Advance(row, h[col].left)
         IN  <<Event("increment", h[col].header), Event("uncover_vertical", col)>>
                \o UncoverCellEvents(UncoverCell(h, col), row, next)

\* uncover_column: `for row in iter_up(node).skip(1)`
RECURSIVE UncoverRowEvents(_, _, _)
UncoverRowEvents(h, node, row) ==
    IF row = NULL THEN <<>>
    ELSE LET next == Advance(node, h[row].up)
             first == SkipLeft(h, row)
         IN  UncoverCellEvents(h, row, first)
                \o UncoverRowEvents(UncoverRowCells(h, row, first), node, next)

\* Node::uncover_column
UncoverEvents(h, n) ==
    LET node == ResolveHeader(h, n)
    IN  UncoverRowEvents(h, node, SkipUp(h, node))
            \o <<Event("uncover_horizontal", node)>>

\* One primitive operation on the heap.
Perform(h, e) ==
    CASE e.op = "cover_horizontal"   -> CoverHorizontal(h, e.node)
      [] e.op = "cover_vertical"     -> CoverVertical(h, e.node)
      [] e.op = "decrement"          -> [h EXCEPT ![e.node].row = @ - 1]
      [] e.op = "increment"          -> [h EXCEPT ![e.node].row = @ + 1]
      [] e.op = "uncover_vertical"   -> UncoverVertical(h, e.node)
      [] e.op = "uncover_horizontal" -> UncoverHorizontal(h, e.node)

RECURSIVE Replay(_, _)
Replay(h, events) ==
    IF events = <<>> THEN h ELSE Replay(Perform(h, Head(events)), Tail(events))

-----------------------------------------------------------------------------
(* C27, C28                                                                *)

\* The headers in the root's ring while the matrix is in use.
HeadersInUse ==
    IF pc \in {"ready", "solving"} THEN Range(LinkedHeaders) ELSE {}

\* The cells of the rows of column c that stand in other columns, in the
\* order rows downward, cells rightward.
RECURSIVE OtherCells(_, _)
OtherCells(h, rs) ==
    IF rs = <<>> THEN <<>>
    ELSE Tail(IterRight(h, Head(rs))) \o OtherCells(h, Tail(rs))

\* The nodes of the events with operation o, in order.
NodesOf(events, o) ==
    LET sel == SelectSeq(events, LAMBDA e : e.op = o)
    IN  [i \in 1..Len(sel) |-> sel[i].node]

\* C27: cover_column unlinks the header from the header ring first; then,
\* rows downward and cells rightward, it removes from its own column each
\* cell of every row of the column that stands in another column, and
\* decrements that column's count once per removed cell; the cells in the
\* covered column itself keep their vertical links.
C27_CoverHeaderFirstThenCells ==
    \A c \in HeadersInUse :
        LET ev == CoverEvents(mem, c)
            h2 == CoverColumn(mem, c)
            own == IterDown(mem, c)
            cells == OtherCells(mem, Tail(own))
        IN  /\ Replay(mem, ev) = h2
            /\ ev[1] = Event("cover_horizontal", c)
            /\ h2[mem[c].left].right = mem[c].right
            /\ h2[mem[c].right].left = mem[c].left
            /\ Len(ev) = 1 + 2 * Len(cells)
            /\ \A i \in 1..Len(cells) :
                  /\ ev[2 * i] = Event("cover_vertical", cells[i])
                  /\ ev[2 * i + 1] = Event("decrement", mem[cells[i]].header)
                  /\ mem[cells[i]].header # c
                  /\ cells[i] \in Range(IterDown(mem, mem[cells[i]].header))
                  /\ cells[i] \notin Range(IterDown(h2, mem[cells[i]].header))
            /\ \A k \in HeadersInUse \ {c} :
                  h2[k].row = mem[k].row
                      - Cardinality({i \in 1..Len(cells) : mem[cells[i]].header = k})
            /\ \A n \in Range(own) :
                  /\ h2[n].up = mem[n].up
                  /\ h2[n].down = mem[n].down
            /\ IterDown(h2, c) = own

\* A linked column holds two rows that have cells in other columns.
C27_Witness ==
    \E c \in HeadersInUse :
        /\ Len(IterDown(mem, c)) >= 3
        /\ Len(OtherCells(mem, Tail(IterDown(mem, c)))) >= 3
        /\ pc = "solving"

\* C28: uncover_column visits the rows of the column upward and the cells
\* of each row leftward, i.e. the cells in the exact reverse of the order
\* in which cover_column removed them; for each cell it increments the
\* count of the cell's column and then links the cell back into it; it
\* links the header back into the header ring last.
C28_UncoverUpwardLeftwardHeaderLast ==
    \A c \in HeadersInUse :
        LET h2 == CoverColumn(mem, c)
            ev == UncoverEvents(h2, c)
            cells == Reverse(NodesOf(CoverEvents(mem, c), "cover_vertical"))
        IN  /\ Replay(h2, ev) = UncoverColumn(h2, c)
            /\ Replay(h2, ev) = mem
            /\ Len(ev) = 2 * Len(cells) + 1
            /\ ev[Len(ev)] = Event("uncover_horizontal", c)
            /\ \A i \in 1..Len(cells) :
                  /\ ev[2 * i - 1] = Event("increment", mem[cells[i]].header)
                  /\ ev[2 * i] = Event("uncover_vertical", cells[i])
                  /\ LET before == Replay(h2, SubSeq(ev, 1, 2 * i - 1))
                         hd == mem[cells[i]].header
                     IN  /\ cells[i] \notin Range(IterDown(before, hd))
                         /\ before[hd].row = Len(IterDown(before, hd))

\* A covered column holds two rows that have cells in other columns.
C28_Witness ==
    \E c \in HeadersInUse :
        /\ Len(IterDown(mem, c)) >= 3
        /\ Len(NodesOf(UncoverEvents(CoverColumn(mem, c), c), "uncover_vertical")) >= 3
        /\ pc = "ready"
        /\ calls # <<>>

-----------------------------------------------------------------------------
(* C29                                                                     *)

\* The header node of the k-th constraint: new allocates the root, then
\* each header followed by its cells.
RECURSIVE HeaderOfColumn(_)
HeaderOfColumn(k) ==
    IF k = 1 THEN root + 1
    ELSE HeaderOfColumn(k - 1) + 1 + Len(constraints[k - 1])

\* The rows in the partial solution.
Chosen == Range(partial_solution)

\* The columns whose headers are out of the root's ring.
MissingColumns ==
    { k \in DOMAIN constraints : HeaderOfColumn(k) \notin Range(LinkedHeaders) }

\* The rows whose cells are linked below the header of column k.
LinkedRows(k) ==
    { Row(mem, n) : n \in Range(Tail(IterDown(mem, HeaderOfColumn(k)))) }

\* The matrix agrees with the partial solution.
AgreesWithPartialSolution ==
    /\ MissingColumns = UNION { Cols(r) : r \in Chosen }
    /\ \A r, q \in Chosen : r # q => Cols(r) \cap Cols(q) = {}
    /\ \A k \in DOMAIN constraints \ MissingColumns :
          LinkedRows(k) = { r \in Range(constraints[k]) :
                              \A q \in Chosen : Cols(r) \cap Cols(q) = {} }

\* No call is running and every add_solution call so far returned Ok(()).
AfterSuccessfulCalls ==
    /\ pc \in {"ready", "ub"}
    /\ calls # <<>>
    /\ \A i \in DOMAIN calls : calls[i].result = "Ok"

\* solve_helper is entered.
AtHelperEntry == pc = "solving" /\ stack # <<>> /\ Top.pc = "enter"

\* C29: after any sequence of successful add_solution calls and at every
\* entry to solve_helper, the columns missing from the root's ring are
\* exactly the columns of the rows in the partial solution, those rows are
\* pairwise column-disjoint, and the rows linked in a remaining column are
\* exactly its rows that share no column with a row of the partial solution.
C29_MatrixAgreesWithPartialSolution ==
    (AfterSuccessfulCalls \/ AtHelperEntry) => AgreesWithPartialSolution

\* Where no call was given a row whose lookup entry was null or dangling,
\* the matrix agrees with the partial solution at those points.
CleanCallsAgree ==
    (/\ AfterSuccessfulCalls \/ AtHelperEntry
     /\ pc # "ub"
     /\ \A i \in DOMAIN calls : calls[i].result # "InvalidRow")
        => AgreesWithPartialSolution

\* solve_helper is entered below the first call with rows chosen by both
\* add_solution and the search, in a matrix that still has columns.
CleanCallsAgreeCase ==
    /\ AtHelperEntry /\ Len(stack) >= 2
    /\ \A i \in DOMAIN calls : calls[i].result = "Ok"
    /\ calls # <<>>
    /\ ~IsEmpty(mem, root)
    /\ AgreesWithPartialSolution

-----------------------------------------------------------------------------
(* C30: the call chain new, add_solution ..., solve.  The calls run on the *)
(* caller's thread, each to its end, so a step that can be taken is taken. *)

NextSolve ==
    \/ \E r \in RowArgs : AddSolutionCall(r)
    \/ AddSolutionCover
    \/ AddSolutionFree
    \/ SolveCall
    \/ HelperEnter
    \/ HelperNextRow
    \/ HelperCover
    \/ HelperReturned
    \/ HelperFree
    \/ HelperUncover
    \/ SolveReturn

\* A step of a call that is running.
StepOfCall ==
    \/ AddSolutionCover
    \/ AddSolutionFree
    \/ HelperEnter
    \/ HelperNextRow
    \/ HelperCover
    \/ HelperReturned
    \/ HelperFree
    \/ HelperUncover
    \/ SolveReturn

\* A call is running; it can take a step then, and only then.
InCall == pc \in {"add_cover", "add_free", "solving"}

\* Weak fairness of StepOfCall, with its enabling condition written out.
CallsRunOn == []<>(~InCall) \/ []<><<StepOfCall>>_vars

SpecSolve ==
    Init /\ [][NextSolve]_vars /\ WF_vars(SolveCall) /\ CallsRunOn

\* solve has returned one of its two results.
SolvedOrExhausted ==
    /\ Solved
    /\ \/ result.status = "Ok"
       \/ result.status = "NoSolution" /\ result.rows = <<>>

\* The process was aborted inside an add_solution call.
Aborted == pc = "ub" /\ calls[Len(calls)].result = "Crash"

DefinedSolveTerminates == <>(SolvedOrExhausted \/ pc = "ub")

\* What solve has returned is one of its two results.
OneOfTwoOutcomes == Solved => SolvedOrExhausted

-----------------------------------------------------------------------------
(* C31                                                                     *)

\* solve_helper is running.
Searching == pc = "solving" /\ stack # <<>>

\* The number of headers in the root's ring when solve was called.
ColumnsAtSolve == Len(Tail(IterRight(trail[1].mem, root)))

\* The number of solve_helper calls below the one solve made.
Depth == Len(stack) - 1

\* The number of add_solution calls that returned Ok(()).
PreSelected == Cardinality({ i \in DOMAIN calls : calls[i].result = "Ok" })

\* C31: the recursion depth of solve_helper never exceeds the number of
\* headers linked in the root's ring when solve was called, and the
\* partial solution never holds more rows than the pre-selected rows plus
\* that number.
C31_DepthAndRowsBounded ==
    Searching =>
        /\ Depth <= ColumnsAtSolve
        /\ Len(partial_solution) <= PreSelected + ColumnsAtSolve

\* The depth is bounded by the columns, and the rows by the rows the
\* partial solution held when solve was called plus the columns.
BoundedFromEntry ==
    Searching =>
        /\ Depth <= ColumnsAtSolve
        /\ Len(partial_solution)
              <= Len(trail[1].partial_solution) + ColumnsAtSolve

\* The search stands as deep as there were columns, three or more.
BoundedFromEntryCase ==
    /\ Searching
    /\ ColumnsAtSolve >= 3
    /\ Depth = ColumnsAtSolve
    /\ Len(partial_solution) = Len(trail[1].partial_solution) + ColumnsAtSolve

-----------------------------------------------------------------------------
(* C32                                                                     *)

\* The rows of the add_solution calls that returned Ok(()), in call order.
RowsOfOkCalls ==
    LET ok == SelectSeq(calls, LAMBDA c : c.result = "Ok")
    IN  [i \in 1..Len(ok) |-> ok[i].row]

\* rs starts with pre.
StartsWith(rs, pre) ==
    Len(pre) <= Len(rs) /\ SubSeq(rs, 1, Len(pre)) = pre

NoRowTwice(rs) == Cardinality(Range(rs)) = Len(rs)

\* C32: the row list solve returns consists of the rows passed to
\* add_solution, in call order, followed by the rows the search selected,
\* and contains no row twice.
C32_ResultIsCallsThenSearch ==
    (Solved /\ result.status = "Ok") =>
        /\ StartsWith(result.rows, RowsOfOkCalls)
        /\ NoRowTwice(result.rows)

\* While the search runs, the partial solution is what it was when solve
\* was called, followed by the row of each frame that has pushed one, the
\* outermost frame's row first, and until a call returns true by nothing
\* else.
SearchRowsInDepthOrder ==
    Searching =>
        /\ StartsWith(partial_solution, trail[1].partial_solution)
        /\ \A i \in 1..Len(stack) :
              stack[i].row # NULL =>
                  /\ Len(partial_solution) >= Len(trail[1].partial_solution) + i
                  /\ partial_solution[Len(trail[1].partial_solution) + i]
                        = Row(mem, stack[i].row)
        /\ (ret # "true" /\ \A i \in 1..Len(stack) : stack[i].pc # "free") =>
              Len(partial_solution)
                 <= Len(trail[1].partial_solution) + Len(stack)

\* Where no call was rejected with InvalidRow, the returned list is the
\* rows of the calls in call order followed by rows of the search, and no
\* row is in it twice.
CleanResultIsCallsThenSearch ==
    (/\ Solved /\ result.status = "Ok"
     /\ \A i \in DOMAIN calls : calls[i].result # "InvalidRow")
        => /\ StartsWith(result.rows, RowsOfOkCalls)
           /\ NoRowTwice(result.rows)

\* A returned list that holds a pre-selected row and rows of the search
\* and is not in ascending order of row index.
UnsortedResultCase ==
    /\ Solved /\ result.status = "Ok"
    /\ \A i \in DOMAIN calls : calls[i].result = "Ok"
    /\ calls # <<>>
    /\ Len(result.rows) >= 3
    /\ \E i \in 1..(Len(result.rows) - 1) : result.rows[i] > result.rows[i + 1]

-----------------------------------------------------------------------------
(* C33                                                                     *)

\* new has returned and nothing else was called.
AfterNew == pc = "ready" /\ calls = <<>>

\* The data node new allocates for the i-th index of the k-th constraint.
NodeAt(k, i) == HeaderOfColumn(k) + i

\* The data nodes of row r, in the order new allocates them.
RowNodes(r) ==
    SelectSeq([n \in 1..Len(mem) |-> n],
              LAMBDA n : mem[n].header # NULL /\ mem[n].row = r)

\* C33: after new(constraints) the root's horizontal ring holds the root
\* followed by one header per constraint in input order; each column's
\* vertical ring holds its header followed by one data node per listed row
\* index in list order; each row's horizontal ring holds exactly that row's
\* nodes in column order; each header's count is the length of its list;
\* each lookup entry points to the row's node in its last column and is
\* null for an index in no column.
C33_NewBuildsRings ==
    AfterNew =>
        /\ IterRight(mem, root)
              = <<root>> \o [k \in DOMAIN constraints |-> HeaderOfColumn(k)]
        /\ \A k \in DOMAIN constraints :
              /\ IterDown(mem, HeaderOfColumn(k))
                    = <<HeaderOfColumn(k)>>
                         \o [i \in DOMAIN constraints[k] |-> NodeAt(k, i)]
              /\ mem[HeaderOfColumn(k)].header = NULL
              /\ mem[HeaderOfColumn(k)].row = Len(constraints[k])
              /\ \A i \in DOMAIN constraints[k] :
                    /\ mem[NodeAt(k, i)].row = constraints[k][i]
                    /\ mem[NodeAt(k, i)].header = HeaderOfColumn(k)
        /\ \A r \in Mentioned :
              /\ IterRight(mem, Head(RowNodes(r))) = RowNodes(r)
              /\ Len(RowNodes(r)) = Cardinality(Cols(r))
              /\ rows[r + 1] = RowNodes(r)[Len(RowNodes(r))]
        /\ Len(rows) = IF Mentioned = {} THEN 0 ELSE Largest(Mentioned) + 1
        /\ \A r \in 0..(Len(rows) - 1) : r \notin Mentioned => rows[r + 1] = NULL

\* new was given three columns; one lists its rows out of ascending order,
\* one row stands in all three columns and one index in none.
C33_Witness ==
    /\ AfterNew
    /\ Len(constraints) = 3
    /\ \E k \in DOMAIN constraints :
          Len(constraints[k]) = 2 /\ constraints[k][1] > constraints[k][2]
    /\ \E r \in Mentioned : Cardinality(Cols(r)) = 3
    /\ \E r \in 0..(Len(rows) - 1) : r \notin Mentioned

-----------------------------------------------------------------------------
(* C34                                                                     *)

\* The header nodes.
Headers == { n \in Allocated : n # root /\ mem[n].header = NULL }

\* C34: no call to add_solution with any row index and no call to solve
\* panics or aborts: misuse is reported as an error value, and the expect
\* on the column choice is never reached with an empty header ring.
C34_NoPanic ==
    /\ \A i \in DOMAIN calls : calls[i].result # "Crash"
    /\ (Searching /\ Top.pc = "enter" /\ ~IsEmpty(mem, root)) =>
          LinkedHeaders # <<>>

\* While no call has read a deallocated node: each call has returned Ok or
\* one of the two error values; the column choice is made on a ring that
\* holds a header; no count has gone below zero; every data node's row
\* index lies within the lookup table.
DefinedCallsDoNotPanic ==
    pc # "ub" =>
        /\ \A i \in DOMAIN calls :
              calls[i].result \in {"Ok", "IndexError", "InvalidRow", "running"}
        /\ (Searching /\ Top.pc = "enter" /\ ~IsEmpty(mem, root)) =>
              /\ LinkedHeaders # <<>>
              /\ ChooseConstraint(mem, root) \in Range(LinkedHeaders)
        /\ \A n \in Headers : mem[n].row >= 0
        /\ \A n \in Allocated \ (Headers \cup {root}) : mem[n].row < Len(rows)

\* Each of the two error values was returned and the search then chose a
\* column.
DefinedCallsDoNotPanicCase ==
    /\ Searching /\ Top.pc = "enter" /\ ~IsEmpty(mem, root)
    /\ \E i \in DOMAIN calls : calls[i].result = "IndexError"
    /\ \E i \in DOMAIN calls : calls[i].result = "InvalidRow"

-----------------------------------------------------------------------------
(* C35: solve in both variants, with no row pre-selected.                  *)

InitBoth ==
    /\ engine \in Engines
    /\ constraints \in Inputs \cup SearchInputs
    /\ LET m == IF engine = "solver" THEN New(constraints) ELSE LibNew(constraints)
       IN  /\ mem = m.mem
           /\ freed = [n \in 1..Len(m.mem) |-> 0]
           /\ rows = m.rows
    /\ root = 1
    /\ partial_solution = <<>>
    /\ pc = "ready"
    /\ cur = [row |-> NULL, it |-> NULL]
    /\ stack = <<>>
    /\ ret = "none"
    /\ calls = <<>>
    /\ result = [status |-> "none", rows |-> <<>>]
    /\ trail = <<>>
    /\ SetIdle
    /\ SudokuIdle
    /\ MazeIdle

NextBoth ==
    \/ SolveCall
    \/ engine = "solver" /\ HelperEnter
    \/ LibHelperEnter
    \/ HelperNextRow
    \/ HelperCover
    \/ HelperReturned
    \/ HelperFree
    \/ HelperUncover
    \/ SolveReturn

SpecBoth == InitBoth /\ [][NextBoth]_vars

\* Some set of rows covers every column exactly once.
HasExactCover == \E S \in SUBSET Mentioned : CompletesCover(S)

\* C35: with no pre-selected rows, the variant that branches on the column
\* with the largest count returns Some exactly when the variant that
\* branches on the column with the smallest count returns Ok, namely when
\* the constraint list has an exact cover, and every row set either
\* returns is an exact cover of the columns.
C35_VariantsAgree ==
    Solved =>
        /\ result.status = "Ok" <=> HasExactCover
        /\ result.status = "Ok" =>
              /\ CompletesCover(Range(result.rows))
              /\ NoRowTwice(result.rows)

\* The max_by variant has returned a cover of the seven columns after
\* backtracking out of a row.
C35_Witness ==
    /\ Solved /\ engine = "lib" /\ result.status = "Ok"
    /\ constraints = TestConstraints
    /\ Range(result.rows) = {1, 3, 5}

\* The max_by variant has found no cover where there is none, on a list of
\* four or more columns each of which lists a row.
C35_LibExhausted ==
    /\ Solved /\ engine = "lib" /\ result.status = "NoSolution"
    /\ Len(constraints) >= 4
    /\ \A k \in DOMAIN constraints : constraints[k] # <<>>

\* The two variants branch on different columns first.
C35_DifferentChoice ==
    /\ pc = "ready" /\ ~IsEmpty(mem, root)
    /\ ChooseConstraint(mem, root) # LibChooseConstraint(mem, root)

-----------------------------------------------------------------------------
(* C36: cover_column and uncover_column on matrices whose constraint lists *)
(* may name a row more than once.                                          *)

MaxRepeatCols == 2
MaxRepeatLen == 3
RepeatRows == 0..1

RepeatLists == UNION { [1..n -> RepeatRows] : n \in 0..MaxRepeatLen }

RepeatInputs == UNION { [1..n -> RepeatLists] : n \in 0..MaxRepeatCols }

InitRepeat ==
    /\ constraints \in RepeatInputs
    /\ mem = New(constraints).mem
    /\ freed = [n \in 1..Len(New(constraints).mem) |-> 0]
    /\ root = 1
    /\ rows = New(constraints).rows
    /\ partial_solution = <<>>
    /\ pc = "ready"
    /\ cur = [row |-> NULL, it |-> NULL]
    /\ stack = <<>>
    /\ ret = "none"
    /\ calls = <<>>
    /\ result = [status |-> "none", rows |-> <<>>]
    /\ engine = "solver"
    /\ trail = <<>>
    /\ SetIdle
    /\ SudokuIdle
    /\ MazeIdle

\* Node::cover_column(h) for a header h of the root's ring
CoverCall(h) ==
    /\ pc = "ready"
    /\ mem' = CoverColumn(mem, h)
    /\ cur' = [row |-> h, it |-> NULL]
    /\ pc' = "covered"
    /\ UNCHANGED <<constraints, freed, root, rows, partial_solution, stack,
                   ret, calls, result, engine, trail>>
    /\ UNCHANGED <<dsVars, skVars, mzVars>>

\* Node::uncover_column(h) for the header just covered
UncoverCall ==
    /\ pc = "covered"
    /\ mem' = UncoverColumn(mem, cur.row)
    /\ pc' = "uncovered"
    /\ UNCHANGED <<constraints, freed, root, rows, partial_solution, cur,
                   stack, ret, calls, result, engine, trail>>
    /\ UNCHANGED <<dsVars, skVars, mzVars>>

NextRepeat ==
    \/ \E h \in Range(LinkedHeaders) : CoverCall(h)
    \/ UncoverCall

SpecRepeat == InitRepeat /\ [][NextRepeat]_vars

\* The list of column k names some row more than once.
Repeats(k) == Cardinality(Range(constraints[k])) < Len(constraints[k])

\* C36: cover_column(h) followed by uncover_column(h) restores all
\* pointers and counts, also when the column's constraint list repeats a
\* row index.
C36_CoverUncoverRestoresWithRepeats ==
    pc = "uncovered" => mem = New(constraints).mem

\* Where no list names a row twice, the pair restores the heap.
DistinctRowsRestored ==
    (pc = "uncovered" /\ \A k \in DOMAIN constraints : ~Repeats(k))
        => mem = New(constraints).mem

\* A column holding two rows that stand in the other column as well has
\* been covered and uncovered.
DistinctRowsRestoredCase ==
    /\ pc = "uncovered"
    /\ Len(constraints) = 2
    /\ \A k \in DOMAIN constraints : ~Repeats(k) /\ Len(constraints[k]) = 2

-----------------------------------------------------------------------------
(* The maze: recursive_backtrack carves it, create_maze solves it          *)

\* The largest side of a maze that is carved, and the largest number of its
\* cells.
MaxSide == 3
MaxArea == 6

\* 2^16: a u32 is two limbs of this size
Limb == 65536

\* `width * height` on u32, where the multiplication wraps: the product
\* modulo 2^32 as [hi, lo] limbs; `overflow` tells whether the product left
\* the type.  The limbs of the arguments stay below 2^15.
WrappingMul(a, b) ==
    LET ah == a \div Limb
        al == a % Limb
        bh == b \div Limb
        bl == b % Limb
        low == al * bl
        cross == (ah * bl + al * bh) % Limb
    IN  [hi |-> (low \div Limb + cross) % Limb,
         lo |-> low % Limb,
         overflow |-> ah * bh > 0 \/ ah * bl + al * bh + low \div Limb >= Limb]

\* `(width * height) as usize`
AsUsize(product) == product.hi * Limb + product.lo

\* The sides create_maze is called with: every small grid, and one whose
\* number of cells does not fit a u32.
Dimensions ==
    { d \in (1..MaxSide) \X (1..MaxSide) : d[1] * d[2] <= MaxArea }
        \cup { <<Limb, Limb>> }

\* Node::new (maze)
MazeNodeNew == [right |-> TRUE, down |-> TRUE]

\* `vec![Direction::Right, Direction::Down, Direction::Left, Direction::Up]`
AllDirections == <<"Right", "Down", "Left", "Up">>

\* Vec::swap_remove: the element at idx goes, the last one takes its place
SwapRemove(vec, idx) ==
    LET n == Len(vec)
    IN  [i \in 1..(n - 1) |-> IF i = idx + 1 THEN vec[n] ELSE vec[i]]

\* visit_next: whether the first check of a direction says `continue`
AtBorder(d, coordinate) ==
    CASE d = "Right" -> (coordinate % width) = (width - 1)
      [] d = "Down"  -> coordinate >= width * (height - 1)
      [] d = "Left"  -> coordinate % width = 0
      [] d = "Up"    -> coordinate < width

\* visit_next: `let next = ..`
NextCell(d, coordinate) ==
    CASE d = "Right" -> coordinate + 1
      [] d = "Down"  -> coordinate + width
      [] d = "Left"  -> coordinate - 1
      [] d = "Up"    -> coordinate - width

\* visit_next: the wall it removes: `maze[coordinate].right = false`, ..
RemoveWall(m, d, coordinate) ==
    CASE d = "Right" -> [m EXCEPT ![coordinate + 1].right = FALSE]
      [] d = "Down"  -> [m EXCEPT ![coordinate + 1].down = FALSE]
      [] d = "Left"  -> [m EXCEPT ![NextCell(d, coordinate) + 1].right = FALSE]
      [] d = "Up"    -> [m EXCEPT ![NextCell(d, coordinate) + 1].down = FALSE]

\* create_maze(width, height, RecursiveBacktrack) has been called.
InitMaze ==
    /\ \E d \in Dimensions : width = d[1] /\ height = d[2]
    /\ maze = <<>>
    /\ path = <<>>
    /\ can_visit = <<>>
    /\ path_tree = <<>>
    /\ traversal = <<>>
    /\ found_paths = 0
    /\ solution = <<>>
    /\ mpc = "called"
    /\ EngineIdle
    /\ SetIdle
    /\ SudokuIdle

\* recursive_backtrack, up to its loop.  A build with overflow checks panics
\* when `width * height` leaves u32; one without wraps.
RecursiveBacktrackEnter ==
    /\ mpc = "called"
    /\ LET product == WrappingMul(width, height)
           size == AsUsize(product)
       IN  \/ /\ product.overflow
              /\ mpc' = "panic"
              /\ UNCHANGED <<maze, elements, path, can_visit>>
           \/ /\ maze' = [i \in 1..size |-> MazeNodeNew]
              /\ elements' = WithSize(size)
              /\ path' = <<0>>
              /\ can_visit' = [i \in 1..size |-> AllDirections]
              /\ mpc' = "carving"
    /\ UNCHANGED <<width, height, path_tree, traversal, found_paths, solution,
                   unions, last, dlVars, skVars>>

\* `path[path.len() - 1]`
Coordinate == path[Len(path)]

\* recursive_backtrack: `&mut can_visit[coordinate as usize]` out of bounds
CanVisitOutOfBounds ==
    /\ mpc = "carving"
    /\ path # <<>>
    /\ Coordinate >= Len(can_visit)
    /\ mpc' = "panic"
    /\ UNCHANGED <<width, height, maze, path, can_visit, path_tree, traversal,
                   found_paths, solution, dsVars, dlVars, skVars>>

\* One turn of visit_next's loop: choose_random takes the direction at idx out
\* of `visitable`; at a border, or with the next cell already connected, the
\* loop continues; else the wall goes, the cells are united and
\* recursive_backtrack pushes the next cell.
VisitNext(idx) ==
    /\ mpc = "carving"
    /\ path # <<>>
    /\ Coordinate < Len(can_visit)
    /\ idx < Len(can_visit[Coordinate + 1])
    /\ LET coordinate == Coordinate
           visitable == can_visit[coordinate + 1]
           d == visitable[idx + 1]
           next == NextCell(d, coordinate)
           common == CommonSet(elements, coordinate, next)
       IN  /\ can_visit' = [can_visit EXCEPT ![coordinate + 1] = SwapRemove(visitable, idx)]
           /\ IF AtBorder(d, coordinate)
              THEN UNCHANGED <<maze, elements, path, mpc>>
              ELSE IF ~common.result.some
              THEN /\ mpc' = "panic"
                   /\ elements' = common.elements
                   /\ UNCHANGED <<maze, path>>
              ELSE IF common.result.value
              THEN /\ elements' = common.elements
                   /\ UNCHANGED <<maze, path, mpc>>
              ELSE LET united == Union(common.elements, coordinate, next)
                   IN  /\ maze' = RemoveWall(maze, d, coordinate)
                       /\ elements' = united.elements
                       /\ IF united.result.some
                          THEN path' = Append(path, next) /\ UNCHANGED mpc
                          ELSE mpc' = "panic" /\ UNCHANGED path
    /\ UNCHANGED <<width, height, path_tree, traversal, found_paths, solution,
                   unions, last, dlVars, skVars>>

\* visit_next returns None with `visitable` empty: `path.pop()`
VisitNone ==
    /\ mpc = "carving"
    /\ path # <<>>
    /\ Coordinate < Len(can_visit)
    /\ can_visit[Coordinate + 1] = <<>>
    /\ path' = SubSeq(path, 1, Len(path) - 1)
    /\ UNCHANGED <<width, height, maze, can_visit, path_tree, traversal,
                   found_paths, solution, mpc, dsVars, dlVars, skVars>>

\* recursive_backtrack returns the maze; create_maze goes on to its loop.
RecursiveBacktrackReturn ==
    /\ mpc = "carving"
    /\ path = <<>>
    /\ path_tree' = [i \in 1..(width * height) |->
                        IF i = 1 THEN [kind |-> "Start"] ELSE [kind |-> "Unvisited"]]
    /\ traversal' = <<0>>
    /\ found_paths' = 0
    /\ mpc' = "solving"
    /\ UNCHANGED <<width, height, maze, path, can_visit, solution,
                   dsVars, dlVars, skVars>>

\* PathNode::Path(parent)
PathTo(parent) == [kind |-> "Path", parent |-> parent]

\* create_maze: one of the four `if .. { path_tree[..] = Path(coordinate);
\* traversal.push_back(..) }`: `open` is the wall test, `to` the neighbour.
\* Reading path_tree past its end panics.
Discover(b, coordinate, open, to) ==
    IF b.panic \/ ~open THEN b
    ELSE IF to >= Len(b.tree) THEN [b EXCEPT !.panic = TRUE]
    ELSE IF b.tree[to + 1].kind = "Unvisited"
    THEN [b EXCEPT !.tree[to + 1] = PathTo(coordinate), !.queue = Append(@, to)]
    ELSE b

\* create_maze: the four neighbours of coordinate, in the order right, down,
\* left, up; left and up only where `checked_sub` gives Some
Neighbours(grid, tree, queue, coordinate) ==
    LET b0 == [tree |-> tree, queue |-> queue, panic |-> FALSE]
        b1 == Discover(b0, coordinate, ~grid[coordinate + 1].right, coordinate + 1)
        b2 == Discover(b1, coordinate, ~grid[coordinate + 1].down, coordinate + width)
        b3 == IF coordinate >= 1
              THEN Discover(b2, coordinate, ~grid[coordinate].right, coordinate - 1)
              ELSE b2
        b4 == IF coordinate >= width
              THEN Discover(b3, coordinate, ~grid[coordinate - width + 1].down,
                            coordinate - width)
              ELSE b3
    IN  b4

\* create_maze: the direction pushed for `current` with its parent
StepDirection(parent, current) ==
    IF parent = current + 1 THEN "Left"
    ELSE IF parent = current + width THEN "Up"
    ELSE IF parent = current - 1 THEN "Right"
    ELSE "Down"

\* create_maze: `while let PathNode::Path(parent) = path_tree[current]`
RECURSIVE SolutionFrom(_, _)
SolutionFrom(tree, current) ==
    IF tree[current + 1].kind = "Path"
    THEN <<StepDirection(tree[current + 1].parent, current)>>
             \o SolutionFrom(tree, tree[current + 1].parent)
    ELSE <<>>

\* create_maze: one turn of its loop with a bottom-row cell that is the
\* width-th one found: the exit is opened and the solution returned
CreateMazeReturn ==
    /\ mpc = "solving"
    /\ traversal # <<>>
    /\ LET coordinate == Head(traversal)
       IN  /\ (coordinate \div width) = (height - 1)
           /\ found_paths + 1 = width
           /\ found_paths' = found_paths + 1
           /\ traversal' = Tail(traversal)
           /\ maze' = [maze EXCEPT ![coordinate + 1].down = FALSE]
           /\ solution' = SolutionFrom(path_tree, coordinate)
           /\ mpc' = "done"
    /\ UNCHANGED <<width, height, path, can_visit, path_tree, dsVars, dlVars, skVars>>

\* create_maze: any other turn of its loop; `pop_front().expect(..)` panics
\* on an empty queue
Traverse ==
    /\ mpc = "solving"
    /\ IF traversal = <<>>
       THEN mpc' = "panic" /\ UNCHANGED <<found_paths, path_tree, traversal>>
       ELSE
       LET coordinate == Head(traversal)
           bottom == (coordinate \div width) = (height - 1)
           b == Neighbours(maze, path_tree, Tail(traversal), coordinate)
       IN  /\ ~(bottom /\ found_paths + 1 = width)
           /\ found_paths' = IF bottom THEN found_paths + 1 ELSE found_paths
           /\ path_tree' = b.tree
           /\ traversal' = b.queue
           /\ mpc' = IF b.panic THEN "panic" ELSE mpc
    /\ UNCHANGED <<width, height, maze, path, can_visit, solution,
                   dsVars, dlVars, skVars>>

NextMaze ==
    \/ RecursiveBacktrackEnter
    \/ CanVisitOutOfBounds
    \/ \E idx \in 0..3 : VisitNext(idx)
    \/ VisitNone
    \/ RecursiveBacktrackReturn
    \/ CreateMazeReturn
    \/ Traverse

SpecMaze == InitMaze /\ [][NextMaze]_vars

-----------------------------------------------------------------------------
(* C37: recursive_backtrack ends with a spanning tree of the grid          *)

\* The cells of the grid.
GridCells == 0..(width * height - 1)

\* The cells in the last column, in the bottom row.
LastColumn == { c \in GridCells : c % width = width - 1 }

BottomRow == { c \in GridCells : c \div width = height - 1 }

\* The walls that are removed in m: the right walls and the down walls, each
\* named by its cell.
RightOpen(m) == { c \in 0..(Len(m) - 1) : ~m[c + 1].right }

DownOpen(m) == { c \in 0..(Len(m) - 1) : ~m[c + 1].down }

\* The cells one removed wall away from a cell of S.
Across(m, S) ==
    { c + 1 : c \in S \cap RightOpen(m) }
        \cup { c - 1 : c \in { x \in S : x - 1 \in RightOpen(m) } }
        \cup { c + width : c \in S \cap DownOpen(m) }
        \cup { c - width : c \in { x \in S : x - width \in DownOpen(m) } }

\* The cells connected to the cells of S through removed walls.
RECURSIVE ConnectedTo(_, _)
ConnectedTo(m, S) ==
    LET more == S \cup Across(m, S)
    IN  IF more = S THEN S ELSE ConnectedTo(m, more)

\* The removed walls of m form a spanning tree of the grid.
SpanningTree(m) ==
    /\ Len(m) = width * height
    /\ ConnectedTo(m, {0}) = GridCells
    /\ Cardinality(RightOpen(m)) + Cardinality(DownOpen(m)) = width * height - 1
    /\ RightOpen(m) \cap LastColumn = {}
    /\ DownOpen(m) \cap BottomRow = {}

\* recursive_backtrack has returned its maze and create_maze has not yet
\* touched it.
Carved == mpc = "solving"

\* recursive_backtrack has panicked.
CarvingPanicked == mpc = "panic" /\ path_tree = <<>>

\* What is left for recursive_backtrack to do: the directions not yet taken
\* out of can_visit, twice, and the cells on the path.
RECURSIVE Untried(_)
Untried(cv) == IF cv = <<>> THEN 0 ELSE Len(Head(cv)) + Untried(Tail(cv))

Remaining == 2 * Untried(can_visit) + Len(path)

\* C37: for every width and height of at least 1 and every outcome of the
\* random choices recursive_backtrack returns, and the walls it removed form
\* a spanning tree of the grid: every cell is connected to cell 0, exactly
\* width * height - 1 walls are removed, none of them a right wall of the
\* last column or a down wall of the bottom row.
C37_CarvesSpanningTree ==
    /\ ~CarvingPanicked
    /\ Carved => SpanningTree(maze)

\* The number of cells fits a u32.
FitsU32 == ~WrappingMul(width, height).overflow

\* Where the number of cells fits a u32 recursive_backtrack does not panic and
\* returns a spanning tree, whatever the random choices.
FittingGridCarvesSpanningTree ==
    FitsU32 => /\ ~CarvingPanicked
               /\ Carved => SpanningTree(maze)

\* Every turn of either loop of recursive_backtrack leaves less to do, so
\* the loops end.
CarvingProgresses ==
    [][mpc = "carving" /\ mpc' = "carving" => Remaining' < Remaining]_vars

\* A carved maze in which the path has branched: a cell with three removed
\* walls around it.
BranchedTreeCase ==
    /\ Carved
    /\ \E c \in GridCells : Cardinality(Across(maze, {c})) = 3

-----------------------------------------------------------------------------
(* C38: create_maze's solution leads from cell 0 to the exit               *)

\* The cell a step in direction d from `cell` leads to in m: none where the
\* step is not a move between adjacent cells through a removed wall.
Move(m, cell, d) ==
    CASE d = "Right" -> IF cell % width # width - 1 /\ cell \in RightOpen(m)
                        THEN {cell + 1} ELSE {}
      [] d = "Down"  -> IF cell \notin BottomRow /\ cell \in DownOpen(m)
                        THEN {cell + width} ELSE {}
      [] d = "Left"  -> IF cell % width # 0 /\ (cell - 1) \in RightOpen(m)
                        THEN {cell - 1} ELSE {}
      [] d = "Up"    -> IF cell >= width /\ (cell - width) \in DownOpen(m)
                        THEN {cell - width} ELSE {}

\* Where the steps lead from the cells of `from`, taken first to last.
RECURSIVE WalkFrom(_, _, _)
WalkFrom(m, from, steps) ==
    IF steps = <<>> THEN from
    ELSE WalkFrom(m, UNION { Move(m, c, Head(steps)) : c \in from }, Tail(steps))

\* The steps lead from cell 0 to an exit.
LeadsToExit(m, steps) ==
    LET end == WalkFrom(m, {0}, steps)
    IN  end # {} /\ end \subseteq BottomRow \cap DownOpen(m)

\* create_maze has returned.
MazeCreated == mpc = "done"

\* The bottom-row cells whose down wall is removed.
Exits == BottomRow \cap DownOpen(maze)

\* C38: for every width and height of at least 1 the solution create_maze
\* returns, read from its last element to its first and started at cell 0,
\* moves only between adjacent cells through removed walls in the stated
\* direction and ends at the bottom-row cell whose down wall create_maze
\* opened as the exit.
C38_SolutionLeadsToExit ==
    MazeCreated => LeadsToExit(maze, Reverse(solution))

\* With a width of at least 2 the solution leads from cell 0 to the exit,
\* and the exit is the only opening of the bottom row.
WideSolutionLeadsToExit ==
    MazeCreated /\ width >= 2 =>
        /\ LeadsToExit(maze, Reverse(solution))
        /\ Cardinality(Exits) = 1

\* A solution of a grid at least 2 wide that turns: it has a step upward or to
\* the left.
TurningSolutionCase ==
    /\ MazeCreated
    /\ width >= 2
    /\ \E i \in DOMAIN solution : solution[i] \in {"Left", "Up"}

\* With a width of 1 every step of the solution is named Right, and none
\* leads anywhere.
NarrowSolutionGoesRight ==
    MazeCreated /\ width = 1 =>
        /\ Len(solution) = height - 1
        /\ \A i \in DOMAIN solution : solution[i] = "Right"

-----------------------------------------------------------------------------
(* C39: the Sudoku mask follows the working grid                           *)

\* The digits a word of the mask marks.
Marked(word) == { d \in 0..15 : BitAnd(word, Shl(d)) # 0 }

\* The non-zero digits of the grid pz in the cells of unit.
UnitDigits(pz, unit) == { pz[i + 1] : i \in unit } \ {0}

\* In every row, column and box the mask marks exactly the non-zero digits
\* the grid holds there.
MaskFollows(mk, pz) ==
    \A k \in 0..(GRID_SIZE - 1) :
        /\ Marked(mk.rows[k + 1]) = UnitDigits(pz, { i \in Cells : Indicies(i).row = k })
        /\ Marked(mk.cols[k + 1]) = UnitDigits(pz, { i \in Cells : Indicies(i).col = k })
        /\ Marked(mk.boxes[k + 1]) = UnitDigits(pz, { i \in Cells : Indicies(i).boxe = k })

\* solve stands at the head of its loop with a square on the stack.
AtSquare == spc = "loop" /\ squares # <<>>

\* The square on top of the stack, and the digit the grid holds there.
TopSquare == squares[Len(squares)]

Previous == puzzle[TopSquare.index + 1]

\* The grid and the mask once the pass has taken the previous digit of the
\* top square back (`puzzle[*index] = 0; mask.clear(*index, previous)`).
TakenBack ==
    IF Previous # 0
    THEN [puzzle |-> [puzzle EXCEPT ![TopSquare.index + 1] = 0],
          mask |-> MaskClear(mask, TopSquare.index, Previous)]
    ELSE [puzzle |-> puzzle, mask |-> mask]

\* s is the beginning of t.
IsPrefix(s, t) == Len(s) <= Len(t) /\ SubSeq(t, 1, Len(s)) = s

\* C39: throughout the solve loop the mask's set of marked digits equals, for
\* every row, column and box, the set of non-zero digits in that unit of the
\* working grid, before a pass and after it has taken the previous digit
\* back; and the candidates stored for every stacked square are those the
\* mask allows whenever the search is at that square: what is left of the
\* list is the beginning of the list the mask gives there now.
C39_MaskFollowsGrid ==
    /\ spc \in {"loop", "done"} => MaskFollows(mask, puzzle)
    /\ AtSquare =>
        /\ MaskFollows(TakenBack.mask, TakenBack.puzzle)
        /\ IsPrefix(TopSquare.candidates, Candidates(TakenBack.mask, TopSquare.index))

\* The search has come back to a square that has candidates left, in a grid
\* whose givens repeat no digit.
C39_Witness ==
    /\ AtSquare
    /\ NoRepeat(input)
    /\ Previous # 0
    /\ TopSquare.candidates # <<>>

\* The search has come back to a square below another stacked square, in a
\* grid whose givens repeat a digit in a unit.
ReturnWithRepeatedGivensCase ==
    /\ AtSquare
    /\ ~NoRepeat(input)
    /\ Len(squares) >= 2
    /\ Previous # 0

====
